---- MODULE Spec2Model ----
(***************************************************************************)
(* State-machine model of the Claude Code agent plugin:                    *)
(*   - watcher.ts : the activity delta engine (processJsonlDelta,          *)
(*                  primeProjectOffsets, start/stopActivityWatch) and the  *)
(*                  dirty-path / reconciliation watcher                    *)
(*   - parser.ts  : the scan orchestrator parseSessionsFromProjects        *)
(*   - cache.ts   : whole-result cache, metadata index, aggregate cache    *)
(*                                                                         *)
(* File sizes are counted in lines: every line of a unit file, with its    *)
(* newline, is one unit of stat.size, so a byte range [a, b) is the lines  *)
(* a+1 .. b.  Every await of the source is a step of its own: the code     *)
(* before an await and the code after it are different actions, and any    *)
(* other callback may run in between.                                      *)
(***************************************************************************)
EXTENDS Integers, Sequences, FiniteSets, TLC

----------------------------------------------------------------------------
(* Bounds of the model *)

MaxLen == 2
MaxDelta == 2
MaxPrime == 1
MaxEvents == 1
MaxMtime == 2
MaxClock == 1
MaxEnum == 1

----------------------------------------------------------------------------
(* The file system: project directories under CLAUDE_CODE_PROJECTS_PATH and *)
(* the .jsonl unit files in them.  A path is <<directory, file name>>.      *)

DirSeq == <<"p1", "p2">>
Dirs == {DirSeq[k] : k \in 1..Len(DirSeq)}
PathSeq == << <<"p1", "a">>, <<"p2", "b">>, <<"p2", "c">>, <<"p2", "a">> >>
Paths == {PathSeq[k] : k \in 1..Len(PathSeq)}

(* Three unit files of three unit ids, and two unit files of one file name *)
(* in two project directories.                                             *)
UnitPaths == {PathSeq[1], PathSeq[2], PathSeq[3]}
TwinPaths == {PathSeq[1], PathSeq[4]}
ProjectDirOf(p) == p[1]
SessionIdOf(p) == p[2]

(* The unit files the activity runs write to, and the single-unit filters  *)
(* the scans are called with ("" is no filter).                            *)
ActPaths == {PathSeq[1]}
ScanPaths == {PathSeq[1], PathSeq[2]}
ScanSessionIds == {"", "b"}

None == 0 - 1
Failed == 0 - 2

(* A line of a unit file, decoded.  shape is what JSON.parse makes of it:  *)
(* "text" is not JSON, "null" and "number" are JSON values that are not    *)
(* objects, "object" is a record.  Of a record, valid says that it is an   *)
(* assistant record whose message and usage are objects, whose output and  *)
(* cache counters are numbers and whose message id is a string; id, model  *)
(* and the four counters are the values it carries.  timestamp, cwd and    *)
(* slug are strings, or "absent", or "number" (mistyped).                  *)
BadLine == [shape |-> "text", valid |-> FALSE, id |-> "", input |-> 0,
            cwd |-> "absent", slug |-> "absent", model |-> "",
            output |-> 0, cacheRead |-> 0, cacheCreation |-> 0,
            timestamp |-> "absent"]
TokLine == [shape |-> "object", valid |-> TRUE, id |-> "m1", input |-> 3,
            cwd |-> "absent", slug |-> "absent", model |-> "opus",
            output |-> 1, cacheRead |-> 0, cacheCreation |-> 0,
            timestamp |-> "absent"]
Lines == {BadLine, TokLine}

NullLine == [BadLine EXCEPT !.shape = "null"]
NumberLine == [BadLine EXCEPT !.shape = "number"]
PlainLine == [BadLine EXCEPT !.shape = "object"]
CwdLine == [BadLine EXCEPT !.shape = "object", !.cwd = "/a", !.slug = "s1"]
CwdNumberLine == [TokLine EXCEPT !.id = "m2", !.cwd = "number"]

(* A validator that does not look at the input counter. *)
AcceptsAnyInput(entry) ==
    /\ entry.shape = "object"
    /\ entry.valid
    /\ entry.id # ""

(* String.prototype.trim on the strings of the model. *)
Trim(str) ==
    CASE str = "  " -> ""
      [] str = " /a " -> "/a"
      [] str = " opus " -> "opus"
      [] OTHER -> str

isTokenBearingAssistant(entry) ==
    /\ entry.shape = "object"
    /\ entry.valid
    /\ Trim(entry.model) # ""
    /\ entry.input > 0
    /\ entry.id # ""

Callbacks == {"cb"}
DeltaIds == 1..MaxDelta
PrimeIds == 1..MaxPrime

VARIABLES
    files,            \* [Paths -> [present, content, mtime]]
    activityWatcher,  \* watcher.ts activityWatcher
    deltas,           \* in-flight processJsonlDelta invocations
    primes,           \* in-flight primeProjectOffsets invocations
    actEnum,          \* pending getProjectDirs().then of startActivityWatch
    actEvents,        \* change events queued for the activity listeners
    delivered,        \* history: callback invocations for the line now at each position
    primedAt,         \* history: file length when the path's offset was first primed
    startLen,         \* history: file length when startActivityWatch was called
    sessionWatcher,   \* watcher.ts sessionWatcher
    forceFullReconciliation,
    sessionMetadataIndex,   \* cache.ts: path -> [mtimeMs, sessionId]
    sessionAggregateCache,  \* cache.ts: sessionId -> [updatedAt, usageRows, lastAccessed]
    sessionCache,     \* cache.ts: the whole-result cache
    clock,            \* Date.now()
    scan,             \* the parseSessionsFromProjects call in flight, or the last one
    sessEnum,         \* pending getProjectDirs().then of startSessionWatcher
    pending,          \* history: paths with a change event since the last drain
    owed,             \* history: drained paths no scan has stat'd since
    included,         \* history: the mtime a scan last listed the path's file with
    evictedFrom,      \* history: the aggregate cache the last lone eviction pass found
    repeats,          \* history: the lifecycle calls made when they had nothing to do
    probe             \* a pure function called on its own: its name, input and output

passVars == <<evictedFrom, repeats, probe>>
actVars == <<activityWatcher, deltas, primes, actEnum, actEvents,
             delivered, primedAt, startLen>>
scanVars == <<sessionWatcher, forceFullReconciliation, sessionMetadataIndex,
              sessionAggregateCache, sessionCache, clock, scan, sessEnum,
              pending, owed, included, passVars>>
vars == <<files, actVars, scanVars>>

----------------------------------------------------------------------------
(* Helpers *)

Min(a, b) == IF a < b THEN a ELSE b

Size(p) == IF files[p].present THEN Len(files[p].content) ELSE Failed

IdleDelta == [pc |-> "idle", path |-> <<"", "">>, callback |-> "",
              size |-> 0, known |-> 0, start |-> 0]
IdlePrime == [pc |-> "idle", dir |-> "", entries |-> <<>>, size |-> 0]

(* fs.readdir of a project directory: its .jsonl files, in directory order. *)
InDirAndPresent(d, p) == ProjectDirOf(p) = d /\ files[p].present
DirEntries(d) == SelectSeq(PathSeq, LAMBDA p : InDirAndPresent(d, p))

FreeDelta == {i \in DeltaIds : deltas[i].pc = "idle"}
FreePrime == {t \in PrimeIds : primes[t].pc = "idle"}
LeastOf(S) == CHOOSE i \in S : \A j \in S : i <= j

KnownOffset(p) ==
    IF activityWatcher.fileOffsets[p] = None THEN 0 ELSE activityWatcher.fileOffsets[p]

----------------------------------------------------------------------------
(* The scan side: the dirty-path watcher of watcher.ts, the caches of       *)
(* cache.ts and the scan orchestrator of parser.ts.                         *)

(* cache.ts: the whole-result cache lives CACHE_TTL_MS clock ticks and the  *)
(* aggregate cache holds SESSION_AGGREGATE_CACHE_MAX entries after a pass.  *)
CACHE_TTL_MS == 1
SESSION_AGGREGATE_CACHE_MAX == 1

DefaultLimit == 100

(* The clock starts late enough for "now - 0" to be outside the TTL. *)
Clock0 == CACHE_TTL_MS
ClockMax == Clock0 + MaxClock

(* timers and rootListeners are the runtime's side of the two handles: how *)
(* many intervals are armed and how many fs.watch listeners are open on    *)
(* the root directory.                                                     *)
InitSessionWatcher ==
    [projectWatchers |-> {}, rootWatcher |-> FALSE, dirtyPaths |-> {},
     reconciliationTimer |-> FALSE, started |-> FALSE,
     timers |-> 0, rootListeners |-> 0]

(* sessionMetadataIndex.get of a path that has no entry *)
NoMetadata == [mtimeMs |-> None, sessionId |-> ""]

InitSessionCache ==
    [lastCheck |-> 0, lastResult |-> <<>>, lastLimit |-> 0, lastSince |-> None]

IdleScan ==
    [pc |-> "idle", sessionId |-> "", since |-> None, limit |-> 0, now |-> 0,
     dirtyPaths |-> {}, needsFullStat |-> FALSE,
     projectDirs |-> <<>>, entries |-> <<>>,
     sessionFiles |-> <<>>, seenFilePaths |-> {},
     todo |-> <<>>, sessions |-> <<>>, result |-> <<>>,
     \* history of this call
     eligible |-> FALSE, fromCache |-> FALSE, ops |-> {},
     statted |-> {}, skipped |-> {}, forced |-> {}, readPaths |-> {},
     lateEvents |-> {}, prevLate |-> {},
     prevIncluded |-> [p \in Paths |-> None],
     failedReads |-> {}, prevFailed |-> {}, failedStats |-> {}]

(* What version mtime of the unit file p holds: one assistant record whose *)
(* token count tells the path and the version apart.                       *)
PathIndex(p) == CHOOSE k \in 1..Len(PathSeq) : PathSeq[k] = p
ContentOf(p, mtime) ==
    <<[TokLine EXCEPT !.input = 10 * PathIndex(p) + mtime]>>

(* paths.ts getProjectDirs: the project directories, in directory order.   *)
(* A project directory exists while it holds a unit file.                  *)
DirExists(d) == \E p \in Paths : InDirAndPresent(d, p)
getProjectDirs == SelectSeq(DirSeq, DirExists)

----------------------------------------------------------------------------
(* Sequence helpers *)

Range(s) == {s[k] : k \in 1..Len(s)}

(* Array.prototype.sort((a, b) => b.mtimeMs - a.mtimeMs): stable, newest   *)
(* first.                                                                  *)
RECURSIVE InsertDesc(_, _)
InsertDesc(x, sorted) ==
    IF sorted = <<>> THEN <<x>>
    ELSE IF Head(sorted).mtimeMs > x.mtimeMs
         THEN <<Head(sorted)>> \o InsertDesc(x, Tail(sorted))
         ELSE <<x>> \o sorted

(* A sort that leaves the files in directory order. *)
SortKeepsOrder(s) == s

RECURSIVE SortByMtimeDesc(_)
SortByMtimeDesc(s) ==
    IF s = <<>> THEN <<>> ELSE InsertDesc(Head(s), SortByMtimeDesc(Tail(s)))

----------------------------------------------------------------------------
(* parser.ts parseSessionFileRows, lines 63-102: one row per message id,   *)
(* the last record of an id wins, rows stay in the order ids first appear. *)

(* Date.parse on the strings of the model: the time of a date string, NaN  *)
(* (None) of any other string.                                             *)
DateParse(value) ==
    CASE value = "t1" -> 1
      [] value = "t2" -> 2
      [] OTHER -> None

(* parser.ts toTimestamp, lines 25-29 *)
toTimestamp(value, fallback) ==
    IF value \in {"absent", ""} THEN fallback
    ELSE IF DateParse(value) # None THEN DateParse(value) ELSE fallback

(* A field an object has only when present holds. *)
Optional(name, present, value) == IF present THEN name :> value ELSE <<>>

(* One that takes the cache counter into the input count. *)
UsageRowSummed(sessionId, mtimeMs, entry, sessionName, projectPath) ==
    [sessionId |-> sessionId, id |-> entry.id, modelId |-> entry.model,
     input |-> entry.input + entry.cacheRead, output |-> entry.output,
     timestamp |-> toTimestamp(entry.timestamp, mtimeMs),
     sessionUpdatedAt |-> mtimeMs]
    @@ Optional("sessionName", sessionName # "", sessionName)
    @@ Optional("cacheRead", entry.cacheRead > 0, entry.cacheRead)
    @@ Optional("cacheWrite", entry.cacheCreation > 0, entry.cacheCreation)
    @@ Optional("projectPath", projectPath # "", projectPath)

(* lines 72-96: the row of one record; id is the message id it was stored  *)
(* under in the map of line 98.                                            *)
UsageRow(sessionId, mtimeMs, entry, sessionName, projectPath) ==
    [sessionId |-> sessionId, id |-> entry.id, modelId |-> entry.model,
     input |-> entry.input, output |-> entry.output,
     timestamp |-> toTimestamp(entry.timestamp, mtimeMs),
     sessionUpdatedAt |-> mtimeMs]
    @@ Optional("sessionName", sessionName # "", sessionName)
    @@ Optional("cacheRead", entry.cacheRead > 0, entry.cacheRead)
    @@ Optional("cacheWrite", entry.cacheCreation > 0, entry.cacheCreation)
    @@ Optional("projectPath", projectPath # "", projectPath)

(* utils.ts extractProjectPath, lines 33-39: entry.cwd?.trim() of the      *)
(* entries in order, up to the first non-empty one.  Reading .cwd of null  *)
(* and calling .trim of a cwd that is not a string raise a TypeError.      *)
TypeError == "TypeError"

RECURSIVE extractProjectPath(_)
extractProjectPath(entries) ==
    IF entries = <<>> THEN ""
    ELSE LET entry == Head(entries)
         IN IF entry.shape = "null" THEN TypeError
            ELSE IF entry.shape = "object" /\ entry.cwd = "number" THEN TypeError
            ELSE IF entry.shape = "object" /\ entry.cwd # "absent"
                    /\ Trim(entry.cwd) # "" THEN Trim(entry.cwd)
            ELSE extractProjectPath(Tail(entries))

(* parser.ts extractSlug, lines 53-61: entry.slug of the entries from the  *)
(* last one back, up to the first non-empty string.  Reading .slug of null *)
(* raises a TypeError.                                                     *)
(* The slug of the first entry that has one, as extractProjectPath scans. *)
RECURSIVE extractFirstSlug(_)
extractFirstSlug(entries) ==
    IF entries = <<>> THEN ""
    ELSE LET entry == Head(entries)
         IN IF entry.shape = "null" THEN TypeError
            ELSE IF entry.shape = "object"
                    /\ entry.slug \notin {"absent", "number", ""} THEN entry.slug
            ELSE extractFirstSlug(Tail(entries))

RECURSIVE extractSlug(_)
extractSlug(entries) ==
    IF entries = <<>> THEN ""
    ELSE LET entry == entries[Len(entries)]
         IN IF entry.shape = "null" THEN TypeError
            ELSE IF entry.shape = "object"
                    /\ entry.slug \notin {"absent", "number", ""} THEN entry.slug
            ELSE extractSlug(SubSeq(entries, 1, Len(entries) - 1))

(* parseSessionFileRows raises what its lines 65 and 66 raise. *)
ParseThrows(entries) ==
    \/ extractProjectPath(entries) = TypeError
    \/ extractSlug(entries) = TypeError

FirstOfId(s, k) == \A j \in 1..(k - 1) : s[j].id # s[k].id
(* The first record of an id, as a map that keeps its first value would. *)
FirstWithId(s, id) == s[CHOOSE k \in 1..Len(s) :
                           s[k].id = id /\ \A j \in 1..(k - 1) : s[j].id # id]
LastOfId(s, id) == s[CHOOSE k \in 1..Len(s) :
                        s[k].id = id /\ \A j \in (k + 1)..Len(s) : s[j].id # id]

(* One row per id, placed where the last record of the id stands. *)
RECURSIVE DedupAtLast(_, _)
DedupAtLast(s, k) ==
    IF k > Len(s) THEN <<>>
    ELSE IF \A j \in (k + 1)..Len(s) : s[j].id # s[k].id
         THEN <<s[k]>> \o DedupAtLast(s, k + 1)
         ELSE DedupAtLast(s, k + 1)

RECURSIVE DedupFrom(_, _)
DedupFrom(s, k) ==
    IF k > Len(s) THEN <<>>
    ELSE IF FirstOfId(s, k) THEN <<LastOfId(s, s[k].id)>> \o DedupFrom(s, k + 1)
         ELSE DedupFrom(s, k + 1)

parseSessionFileRows(sessionId, mtimeMs, entries) ==
    LET tokenBearing == SelectSeq(entries, isTokenBearingAssistant)
        deduped == DedupFrom(tokenBearing, 1)
        projectPath == extractProjectPath(entries)
        sessionName == extractSlug(entries)
    IN [k \in 1..Len(deduped) |->
           UsageRow(sessionId, mtimeMs, deduped[k], sessionName, projectPath)]

(* utils.ts readJsonlFile, lines 3-23: the lines that are JSON, decoded,   *)
(* or nothing when the read fails.                                         *)
readJsonlFile(p, ok) ==
    IF ok /\ files[p].present
    THEN SelectSeq(files[p].content, LAMBDA line : line.shape # "text")
    ELSE <<>>

----------------------------------------------------------------------------
(* cache.ts sessionAggregateCache: a Map, kept as its entries in insertion *)
(* order.                                                                  *)

AggPos(cache, key) ==
    IF \E k \in 1..Len(cache) : cache[k].key = key
    THEN CHOOSE k \in 1..Len(cache) : cache[k].key = key
    ELSE 0

AggSet(cache, key, updatedAt, usageRows, lastAccessed) ==
    LET entry == [key |-> key, updatedAt |-> updatedAt, usageRows |-> usageRows,
                  lastAccessed |-> lastAccessed]
        k == AggPos(cache, key)
    IN IF k = 0 THEN Append(cache, entry) ELSE [cache EXCEPT ![k] = entry]

(* How many entries an eviction pass drops before cache[k]: those accessed *)
(* earlier, and of those accessed at the same time the ones inserted       *)
(* earlier.                                                                *)
EvictRank(cache, k) ==
    Cardinality({j \in 1..Len(cache) :
                    \/ cache[j].lastAccessed < cache[k].lastAccessed
                    \/ cache[j].lastAccessed = cache[k].lastAccessed /\ j < k})

RECURSIVE KeepFrom(_, _, _)
KeepFrom(cache, k, over) ==
    IF k > Len(cache) THEN <<>>
    ELSE IF EvictRank(cache, k) < over THEN KeepFrom(cache, k + 1, over)
         ELSE <<cache[k]>> \o KeepFrom(cache, k + 1, over)

(* An eviction pass that drops the entries inserted first, whatever their  *)
(* access times.                                                           *)
EvictOldestInserted(cache) ==
    IF Len(cache) <= SESSION_AGGREGATE_CACHE_MAX THEN cache
    ELSE SubSeq(cache, Len(cache) - SESSION_AGGREGATE_CACHE_MAX + 1, Len(cache))

(* No pure function has been called on its own yet. *)
NoProbe == [op |-> "", input |-> <<>>, output |-> <<>>]

(* No eviction pass has run on its own yet. *)
NotRun == <<[key |-> "", updatedAt |-> 0, usageRows |-> <<>>, lastAccessed |-> 0]>>

evictSessionAggregateCache(cache) ==
    IF Len(cache) <= SESSION_AGGREGATE_CACHE_MAX THEN cache
    ELSE KeepFrom(cache, 1, Len(cache) - SESSION_AGGREGATE_CACHE_MAX)

----------------------------------------------------------------------------
(* Initial state: the module-level singletons of watcher.ts and cache.ts *)

InitActivityWatcher ==
    [projectWatchers |-> {}, rootWatcher |-> FALSE, callback |-> "",
     fileOffsets |-> [p \in Paths |-> None], started |-> FALSE]

AbsentFile == [present |-> FALSE, content |-> <<>>, mtime |-> 0]

InitFiles ==
    \E c \in {<<>>, <<TokLine>>} :
        files = [p \in Paths |-> IF p \in ActPaths
                                 THEN [present |-> TRUE, content |-> c, mtime |-> 1]
                                 ELSE AbsentFile]

InitEngine ==
    /\ activityWatcher = InitActivityWatcher
    /\ deltas = [i \in DeltaIds |-> IdleDelta]
    /\ primes = [t \in PrimeIds |-> IdlePrime]
    /\ actEnum = 0
    /\ actEvents = [p \in Paths |-> 0]
    /\ delivered = [p \in Paths |-> [k \in 1..MaxLen |-> 0]]
    /\ primedAt = [p \in Paths |-> None]
    /\ startLen = [p \in Paths |-> None]
    /\ sessionWatcher = InitSessionWatcher
    /\ forceFullReconciliation = FALSE
    /\ sessionMetadataIndex = [p \in Paths |-> NoMetadata]
    /\ sessionAggregateCache = <<>>
    /\ sessionCache = InitSessionCache
    /\ clock = Clock0
    /\ scan = IdleScan
    /\ sessEnum = 0
    /\ pending = {}
    /\ owed = {}
    /\ included = [p \in Paths |-> None]
    /\ evictedFrom = NotRun
    /\ repeats = {}
    /\ probe = NoProbe

Init == InitFiles /\ InitEngine

----------------------------------------------------------------------------
(* The environment: the agent appends to, truncates and removes unit files. *)
(* A change raises one event for each listener attached to the directory.   *)

Notify(p) ==
    actEvents' = IF ProjectDirOf(p) \in activityWatcher.projectWatchers
                 THEN [actEvents EXCEPT ![p] = Min(@ + 1, MaxEvents)]
                 ELSE actEvents

AppendLine(p, line) ==
    /\ Len(files[p].content) < MaxLen
    /\ files' = [files EXCEPT ![p].present = TRUE, ![p].content = Append(@, line)]
    /\ Notify(p)
    /\ UNCHANGED <<activityWatcher, deltas, primes, actEnum, delivered,
                   primedAt, startLen>>
    /\ UNCHANGED scanVars

TruncateFile(p, n) ==
    /\ files[p].present
    /\ n < Len(files[p].content)
    /\ files' = [files EXCEPT ![p].content = SubSeq(@, 1, n)]
    /\ Notify(p)
    /\ delivered' = [delivered EXCEPT ![p] =
                       [k \in 1..MaxLen |-> IF k <= n THEN @[k] ELSE 0]]
    /\ UNCHANGED <<activityWatcher, deltas, primes, actEnum, primedAt, startLen>>
    /\ UNCHANGED scanVars

DeleteFile(p) ==
    /\ files[p].present
    /\ files' = [files EXCEPT ![p].present = FALSE, ![p].content = <<>>]
    /\ Notify(p)
    /\ delivered' = [delivered EXCEPT ![p] = [k \in 1..MaxLen |-> 0]]
    /\ UNCHANGED <<activityWatcher, deltas, primes, actEnum, primedAt, startLen>>
    /\ UNCHANGED scanVars

----------------------------------------------------------------------------
(* watcher.ts: startActivityWatch, lines 238-261 *)

startActivityWatch(cb) ==
    /\ activityWatcher' =
          IF activityWatcher.started
          THEN [activityWatcher EXCEPT !.callback = cb]
          ELSE [activityWatcher EXCEPT !.callback = cb, !.started = TRUE,
                                       !.rootWatcher = TRUE]
    /\ actEnum' = IF activityWatcher.started THEN actEnum ELSE actEnum + 1
    /\ (activityWatcher.started \/ actEnum < MaxPrime)
    /\ startLen' = IF activityWatcher.started THEN startLen
                   ELSE [p \in Paths |-> Len(files[p].content)]
    /\ UNCHANGED <<files, deltas, primes, actEvents, delivered, primedAt>>
    /\ UNCHANGED scanVars

(* The k-th free priming slot, lowest first. *)
NthFreePrime(k) ==
    CHOOSE t \in FreePrime : Cardinality({u \in FreePrime : u < t}) = k - 1

(* The .then of getProjectDirs() in startActivityWatch, lines 255-260: for  *)
(* every project directory attach the listener (watchProjectDirForActivity, *)
(* lines 70-83, once per directory) and start primeProjectOffsets.          *)
ActivityDirsResolved ==
    /\ actEnum > 0
    /\ Cardinality(FreePrime) >= Len(getProjectDirs)
    /\ actEnum' = actEnum - 1
    /\ activityWatcher' = [activityWatcher EXCEPT
                               !.projectWatchers = @ \cup Range(getProjectDirs)]
    /\ primes' = [t \in PrimeIds |->
                    IF \E k \in 1..Len(getProjectDirs) : NthFreePrime(k) = t
                    THEN [IdlePrime EXCEPT !.pc = "readdir",
                            !.dir = getProjectDirs[CHOOSE k \in 1..Len(getProjectDirs) :
                                                      NthFreePrime(k) = t]]
                    ELSE primes[t]]
    /\ UNCHANGED <<files, deltas, actEvents, delivered, primedAt, startLen>>
    /\ UNCHANGED scanVars

(* primeProjectOffsets, lines 85-103.  readdir resolves with the entries;   *)
(* then, file by file, fs.stat runs (PrimeStatRun) and its continuation     *)
(* stores the size it saw (PrimeStatResolved).                              *)
PrimeNext(prime, rest) ==
    IF rest = <<>> THEN IdlePrime
    ELSE [prime EXCEPT !.pc = "stat", !.entries = rest, !.size = 0]

PrimeReaddirResolved(t) ==
    /\ primes[t].pc = "readdir"
    /\ primes' = [primes EXCEPT ![t] = PrimeNext(@, DirEntries(primes[t].dir))]
    /\ UNCHANGED <<files, activityWatcher, deltas, actEnum, actEvents, delivered,
                   primedAt, startLen>>
    /\ UNCHANGED scanVars

PrimeStatRun(t) ==
    /\ primes[t].pc = "stat"
    /\ primes' = [primes EXCEPT ![t].pc = "statted",
                                ![t].size = Size(Head(primes[t].entries))]
    /\ UNCHANGED <<files, activityWatcher, deltas, actEnum, actEvents, delivered,
                   primedAt, startLen>>
    /\ UNCHANGED scanVars

PrimeSetOffset(offsets, p, size) ==
    IF size = Failed THEN offsets ELSE [offsets EXCEPT ![p] = size]

PrimeStatResolved(t) ==
    /\ primes[t].pc = "statted"
    /\ LET p == Head(primes[t].entries)
           size == primes[t].size
       IN /\ activityWatcher' = [activityWatcher EXCEPT
                   !.fileOffsets = PrimeSetOffset(@, p, size)]
          /\ primedAt' = IF size # Failed /\ primedAt[p] = None
                         THEN [primedAt EXCEPT ![p] = Len(files[p].content)]
                         ELSE primedAt
          /\ primes' = [primes EXCEPT ![t] = PrimeNext(@, Tail(primes[t].entries))]
    /\ UNCHANGED <<files, deltas, actEnum, actEvents, delivered, startLen>>
    /\ UNCHANGED scanVars

----------------------------------------------------------------------------
(* processJsonlDelta, lines 105-170, started by the listener that           *)
(* watchProjectDirForActivity attaches (lines 74-78).                       *)

(* A change event reaches the listener: the callback is read (106-107) and  *)
(* fs.stat is issued (111).                                                 *)
ActivityListener(p) ==
    /\ actEvents[p] > 0
    /\ ProjectDirOf(p) \in activityWatcher.projectWatchers
    /\ actEvents' = [actEvents EXCEPT ![p] = @ - 1]
    /\ IF activityWatcher.callback = ""
       THEN UNCHANGED deltas
       ELSE /\ FreeDelta # {}
            /\ deltas' = [deltas EXCEPT ![LeastOf(FreeDelta)] =
                  [IdleDelta EXCEPT !.pc = "stat", !.path = p,
                                    !.callback = activityWatcher.callback]]
    /\ UNCHANGED <<files, activityWatcher, primes, actEnum, delivered,
                   primedAt, startLen>>
    /\ UNCHANGED scanVars

(* fs.stat runs against the file system. *)
DeltaStatRun(i) ==
    /\ deltas[i].pc = "stat"
    /\ deltas' = [deltas EXCEPT ![i].pc = "statted", ![i].size = Size(deltas[i].path)]
    /\ UNCHANGED <<files, activityWatcher, primes, actEnum, actEvents, delivered,
                   primedAt, startLen>>
    /\ UNCHANGED scanVars

(* A start offset that is always the head of the file. *)
StartOffsetFromZero(size, knownOffset) == 0

StartOffsetKeepsKnown(size, knownOffset) == knownOffset

(* line 118 *)
StartOffset(size, knownOffset) == IF size < knownOffset THEN 0 ELSE knownOffset

(* The continuation of the stat, lines 112-127: a failed stat drops the     *)
(* offset entry; otherwise the start offset is chosen and, unless there is  *)
(* nothing new, the read is issued.                                         *)
DeltaStatResolved(i) ==
    /\ deltas[i].pc = "statted"
    /\ LET p == deltas[i].path
           size == deltas[i].size
           knownOffset == KnownOffset(p)
           startOffset == StartOffset(size, knownOffset)
       IN IF size = Failed
          THEN /\ activityWatcher' = [activityWatcher EXCEPT !.fileOffsets[p] = None]
               /\ deltas' = [deltas EXCEPT ![i] = IdleDelta]
          ELSE /\ UNCHANGED activityWatcher
               /\ deltas' = [deltas EXCEPT ![i] =
                     IF size = startOffset THEN IdleDelta
                     ELSE [@ EXCEPT !.pc = "read", !.known = knownOffset,
                                    !.start = startOffset]]
    /\ UNCHANGED <<files, primes, actEnum, actEvents, delivered,
                   primedAt, startLen>>
    /\ UNCHANGED scanVars

(* The lines a read of [start, start + length) returns: what the file holds *)
(* there now (a shorter file leaves the rest of the buffer zeroed, which    *)
(* parses to nothing).                                                      *)
ReadRange(p, start, length) ==
    SubSeq(files[p].content, start + 1, Min(start + length, Len(files[p].content)))

TokenBearing(chunk) == SelectSeq(chunk, isTokenBearingAssistant)

(* The lines the continuation of delta i's read hands to the callback it    *)
(* captured at line 106, one invocation each (lines 139-168).               *)
CallbackCalls(i) ==
    LET p == deltas[i].path
        start == deltas[i].start
        length == deltas[i].size - start
    IN IF ~files[p].present \/ length < 0 THEN <<>>
       ELSE TokenBearing(ReadRange(p, start, length))

(* The continuation of open/read/close, lines 124-169: a failure returns    *)
(* with nothing changed; otherwise the offset becomes the stat's size and   *)
(* every token-bearing line of the chunk goes to the callback.              *)
DeltaReadResolved(i) ==
    /\ deltas[i].pc = "read"
    /\ LET p == deltas[i].path
           start == deltas[i].start
           length == deltas[i].size - start
           chunk == ReadRange(p, start, length)
       IN IF ~files[p].present \/ length < 0
          THEN UNCHANGED <<activityWatcher, delivered>>
          ELSE /\ activityWatcher' = [activityWatcher EXCEPT
                      !.fileOffsets[p] = deltas[i].size]
               /\ delivered' = [delivered EXCEPT ![p] =
                      [k \in 1..MaxLen |->
                         IF /\ k > start /\ k <= start + Len(chunk)
                            /\ isTokenBearingAssistant(chunk[k - start])
                         THEN Min(@[k] + 1, 2) ELSE @[k]]]
    /\ deltas' = [deltas EXCEPT ![i] = IdleDelta]
    /\ UNCHANGED <<files, primes, actEnum, actEvents, primedAt, startLen>>
    /\ UNCHANGED scanVars

----------------------------------------------------------------------------
(* The environment of a scan: the agent rewrites and removes unit files,   *)
(* fs.watch raises events, the reconciliation interval fires, time passes. *)

(* The agent writes version mtime + 1 of the unit file p. *)
WriteFile(p) ==
    /\ files[p].mtime < MaxMtime
    /\ files' = [files EXCEPT ![p] =
                    [present |-> TRUE, content |-> ContentOf(p, @.mtime + 1),
                     mtime |-> @.mtime + 1]]
    /\ UNCHANGED <<actVars, scanVars>>

Tick ==
    /\ clock < ClockMax
    /\ clock' = clock + 1
    /\ UNCHANGED <<files, actVars, sessionWatcher, forceFullReconciliation,
                   sessionMetadataIndex, sessionAggregateCache, sessionCache,
                   scan, sessEnum, pending, owed, included, passVars>>

(* The scan in flight has drained the dirty set and has not returned. *)
PastDrain == scan.pc \in {"dirs", "readdir", "stat", "read"}

(* watcher.ts watchProjectDir, lines 172-185 *)
watchProjectDir(sw, d) == [sw EXCEPT !.projectWatchers = @ \cup {d}]

(* The listener attached by watchProjectDir, lines 176-181, runs for a     *)
(* .jsonl name of its directory.  fs.watch may report a change late, twice *)
(* or not at all, so an event is not tied to a write.                      *)
SessionListener(p) ==
    /\ ProjectDirOf(p) \in sessionWatcher.projectWatchers
    /\ sessionWatcher' = [sessionWatcher EXCEPT !.dirtyPaths = @ \cup {p}]
    /\ pending' = IF sessionWatcher.started THEN pending \cup {p} ELSE pending
    /\ scan' = IF PastDrain THEN [scan EXCEPT !.lateEvents = @ \cup {p}] ELSE scan
    /\ UNCHANGED <<files, actVars, forceFullReconciliation, sessionMetadataIndex,
                   sessionAggregateCache, sessionCache, clock, sessEnum,
                   owed, included, passVars>>

(* The listener of the root watcher, lines 192-195: a new project          *)
(* directory gets its own watcher.                                         *)
RootListener(d) ==
    /\ sessionWatcher.rootListeners > 0
    /\ DirExists(d)
    /\ d \notin sessionWatcher.projectWatchers
    /\ sessionWatcher' = watchProjectDir(sessionWatcher, d)
    /\ UNCHANGED <<files, actVars, forceFullReconciliation, sessionMetadataIndex,
                   sessionAggregateCache, sessionCache, clock, scan, sessEnum,
                   pending, owed, included, passVars>>

(* The setInterval callback of startSessionWatcher, lines 205-207 *)
ReconciliationTimer ==
    /\ sessionWatcher.timers > 0
    /\ forceFullReconciliation' = TRUE
    /\ UNCHANGED <<files, actVars, sessionWatcher, sessionMetadataIndex,
                   sessionAggregateCache, sessionCache, clock, scan, sessEnum,
                   pending, owed, included, passVars>>

(* startSessionWatcher without its test of started. *)
startSessionWatcherUnguarded(sw) ==
    [sw EXCEPT !.started = TRUE,
               !.rootWatcher = TRUE, !.rootListeners = @ + 1,
               !.reconciliationTimer = TRUE, !.timers = @ + 1]

(* startSessionWatcher, lines 187-208; the getProjectDirs().then it leaves *)
(* behind is SessionDirsResolved.                                          *)
startSessionWatcher(sw) ==
    IF sw.started THEN sw
    ELSE [sw EXCEPT !.started = TRUE,
                    !.rootWatcher = TRUE, !.rootListeners = @ + 1,
                    !.reconciliationTimer = TRUE, !.timers = @ + 1]

RECURSIVE WatchAll(_, _)
WatchAll(sw, dirs) ==
    IF dirs = <<>> THEN sw ELSE WatchAll(watchProjectDir(sw, Head(dirs)), Tail(dirs))

SessionDirsResolved ==
    /\ sessEnum > 0
    /\ sessEnum' = sessEnum - 1
    /\ sessionWatcher' = WatchAll(sessionWatcher, getProjectDirs)
    /\ UNCHANGED <<files, actVars, forceFullReconciliation, sessionMetadataIndex,
                   sessionAggregateCache, sessionCache, clock, scan,
                   pending, owed, included, passVars>>

(* startSessionWatcher called by the host, lines 187-208 *)
startSessionWatcherCall ==
    /\ (sessionWatcher.started \/ sessEnum < MaxEnum)
    /\ sessionWatcher' = startSessionWatcher(sessionWatcher)
    /\ sessEnum' = IF sessionWatcher.started THEN sessEnum ELSE sessEnum + 1
    /\ repeats' = IF sessionWatcher.started THEN repeats \cup {"start"} ELSE repeats
    /\ UNCHANGED <<files, actVars, forceFullReconciliation, sessionMetadataIndex,
                   sessionAggregateCache, sessionCache, clock, scan,
                   pending, owed, included, evictedFrom, probe>>

(* The body of stopSessionWatcher, lines 210-228: the timer is cleared if  *)
(* its handle is held, every project watcher of the map is closed, the     *)
(* root watcher is closed if its handle is held.                           *)
StoppedSessionWatcher(sw) ==
    [projectWatchers |-> {},
     rootWatcher |-> FALSE,
     rootListeners |-> IF sw.rootWatcher THEN sw.rootListeners - 1 ELSE sw.rootListeners,
     dirtyPaths |-> {},
     reconciliationTimer |-> FALSE,
     timers |-> IF sw.reconciliationTimer THEN sw.timers - 1 ELSE sw.timers,
     started |-> FALSE]

(* stopSessionWatcher called by the host, lines 210-228 *)
stopSessionWatcher ==
    /\ sessionWatcher' = StoppedSessionWatcher(sessionWatcher)
    /\ pending' = {}
    /\ owed' = {}
    /\ repeats' = IF sessionWatcher.started THEN repeats ELSE repeats \cup {"stop"}
    /\ UNCHANGED <<files, actVars, forceFullReconciliation, sessionMetadataIndex,
                   sessionAggregateCache, sessionCache, clock, scan, sessEnum,
                   included, evictedFrom, probe>>

(* consumeForceFullReconciliation, lines 230-236: the value returned and   *)
(* the flag left behind.                                                   *)
consumeForceFullReconciliation(flag) ==
    [value |-> flag, flag |-> IF flag THEN FALSE ELSE flag]

----------------------------------------------------------------------------
(* parser.ts parseSessionsFromProjects, lines 104-270.  The call runs up   *)
(* to its next await in one step; w is the module state it works on.       *)

World ==
    [scan |-> scan, sw |-> sessionWatcher, idx |-> sessionMetadataIndex,
     agg |-> sessionAggregateCache, sc |-> sessionCache, owed |-> owed,
     included |-> included]

SetWorld(w) ==
    /\ scan' = w.scan
    /\ sessionWatcher' = w.sw
    /\ sessionMetadataIndex' = w.idx
    /\ sessionAggregateCache' = w.agg
    /\ sessionCache' = w.sc
    /\ owed' = w.owed
    /\ included' = w.included
    /\ UNCHANGED passVars

(* lines 121-127 *)
CacheHit(sessionId, since, limit, now, sc) ==
    /\ sessionId = ""
    /\ limit = sc.lastLimit
    /\ now - sc.lastCheck < CACHE_TTL_MS
    /\ Len(sc.lastResult) > 0
    /\ sc.lastSince = since

DrainedCopyAfterClear(dirtyPaths) == {}

(* line 132: new Set(sessionWatcher.dirtyPaths) *)
DrainedCopy(dirtyPaths) == dirtyPaths

MaySkipStatUnforced(isDirty, needsFullStat, hasMetadata) == ~isDirty /\ hasMetadata

(* line 172 *)
MaySkipStat(isDirty, needsFullStat, hasMetadata) ==
    ~isDirty /\ ~needsFullStat /\ hasMetadata

(* lines 175, 196, 207: !since || mtimeMs >= since *)
WithinSinceAlways(since, mtimeMs) == TRUE

(* lines 175, 196 and 207: !since || mtimeMs >= since *)
WithinSince(since, mtimeMs) == since = None \/ since = 0 \/ mtimeMs >= since

WritesSessionCacheAlways(sessionId) == TRUE

(* line 250 *)
WritesSessionCache(sessionId) == sessionId = ""

ParsedSessionFile(sessionId, p, mtimeMs) ==
    [sessionId |-> sessionId, filePath |-> p, mtimeMs |-> mtimeMs]

(* sessionFiles.push of lines 176-180, 197-201 and 208 *)
PushSessionFile(w, sessionId, p, mtimeMs) ==
    IF WithinSince(w.scan.since, mtimeMs)
    THEN [w EXCEPT !.scan.sessionFiles = Append(@, ParsedSessionFile(sessionId, p, mtimeMs)),
                   !.included[p] = mtimeMs]
    ELSE w

(* lines 248-269: the eviction pass, the whole-result cache and the return *)
FinishScan(w) ==
    LET evicted == [w EXCEPT !.agg = evictSessionAggregateCache(@)]
        stored == IF WritesSessionCache(w.scan.sessionId)
                  THEN [evicted EXCEPT !.sc = [lastCheck |-> clock,
                                               lastResult |-> w.scan.sessions,
                                               lastLimit |-> w.scan.limit,
                                               lastSince |-> w.scan.since]]
                  ELSE evicted
    IN [stored EXCEPT !.scan.pc = "done", !.scan.result = w.scan.sessions]

(* lines 225-246, from the head of todo on: hits are served from the       *)
(* aggregate cache, the first miss issues readJsonlFile.                   *)
IsAggHit(agg, file) ==
    /\ AggPos(agg, file.sessionId) # 0
    /\ agg[AggPos(agg, file.sessionId)].updatedAt = file.mtimeMs

RECURSIVE RowsLoop(_)
RowsLoop(w) ==
    IF w.scan.todo = <<>> THEN FinishScan(w)
    ELSE LET file == Head(w.scan.todo)
             k == AggPos(w.agg, file.sessionId)
         IN IF IsAggHit(w.agg, file)
            THEN RowsLoop([w EXCEPT !.agg[k].lastAccessed = w.scan.now,
                                    !.scan.sessions = @ \o w.agg[k].usageRows,
                                    !.scan.todo = Tail(@)])
            ELSE [w EXCEPT !.scan.pc = "read"]

(* A purge that keeps every entry. *)
PurgeNothing(idx, seenFilePaths) == idx

(* lines 213-223: the purge of the metadata index and the sort *)
PurgeUnseen(idx, seenFilePaths) ==
    [p \in Paths |-> IF p \in seenFilePaths THEN idx[p] ELSE NoMetadata]

StartRows(w) ==
    RowsLoop([w EXCEPT !.idx = PurgeUnseen(@, w.scan.seenFilePaths),
                       !.scan.sessionFiles = SortByMtimeDesc(@),
                       !.scan.todo = SortByMtimeDesc(w.scan.sessionFiles),
                       !.scan.projectDirs = <<>>, !.scan.entries = <<>>])

(* lines 149-157, from the head of dirs on: watch the directory and issue  *)
(* its readdir; after the last directory the rows are built.               *)
EnterDir(w, dirs) ==
    IF dirs = <<>> THEN StartRows(w)
    ELSE [w EXCEPT !.sw = watchProjectDir(@, Head(dirs)),
                   !.scan.projectDirs = dirs, !.scan.entries = <<>>,
                   !.scan.pc = "readdir"]

(* lines 159-209, from the head of entries on: entries that may skip the   *)
(* stat are taken from the metadata index, the first one that may not      *)
(* issues fs.stat.                                                         *)
RECURSIVE ScanEntries(_, _)
ScanEntries(w, entries) ==
    IF entries = <<>> THEN EnterDir(w, Tail(w.scan.projectDirs))
    ELSE LET p == Head(entries)
             seen == [w EXCEPT !.scan.seenFilePaths = @ \cup {p}]
             metadata == w.idx[p]
         IN IF MaySkipStat(p \in w.scan.dirtyPaths, w.scan.needsFullStat,
                           metadata # NoMetadata)
            THEN ScanEntries(
                    PushSessionFile([seen EXCEPT !.scan.skipped = @ \cup {p}],
                                    metadata.sessionId, p, metadata.mtimeMs),
                    Tail(entries))
            ELSE [seen EXCEPT !.scan.entries = entries, !.scan.pc = "stat",
                              !.scan.statted = @ \cup {p},
                              !.scan.forced = IF p \notin w.scan.dirtyPaths
                                                 /\ metadata # NoMetadata
                                              THEN @ \cup {p} ELSE @,
                              !.owed = @ \ {p}]

(* line 163: the single-unit filter *)
MatchesFilter(sessionId, p) == sessionId = "" \/ SessionIdOf(p) = sessionId

(* The conditions under which the whole-result cache answers a call made   *)
(* now: a global scan stored it, for this limit and since, less than the   *)
(* TTL ago.                                                                *)
HitConditions(sessionId, since, limit) ==
    /\ sessionId = ""
    /\ sessionCache.lastCheck # 0
    /\ limit = sessionCache.lastLimit
    /\ since = sessionCache.lastSince
    /\ clock - sessionCache.lastCheck < CACHE_TTL_MS

(* The call, lines 104-111: fs.access is issued. *)
ScanCall(sessionId, since, limit) ==
    /\ scan.pc \in {"idle", "done", "rejected"}
    /\ scan' = [IdleScan EXCEPT !.pc = "access", !.sessionId = sessionId,
                                !.since = since, !.limit = limit,
                                !.eligible = HitConditions(sessionId, since, limit),
                                !.prevLate = scan.lateEvents,
                                !.prevFailed = scan.prevFailed \cup scan.failedReads,
                                !.prevIncluded = included]
    /\ UNCHANGED <<files, actVars, sessionWatcher, forceFullReconciliation,
                   sessionMetadataIndex, sessionAggregateCache, sessionCache,
                   clock, sessEnum, pending, owed, included, passVars>>

(* A missing root that starts the watcher before it returns. *)
RootMissingStartsWatcher(w) ==
    [w EXCEPT !.sw = startSessionWatcher(@), !.scan.pc = "done",
              !.scan.ops = @ \cup {"access"}]

(* lines 113-116: fs.access failed, [] is returned *)
RootMissing(w) ==
    [w EXCEPT !.scan.pc = "done", !.scan.result = <<>>,
              !.scan.ops = @ \cup {"access"}]

(* A cache hit that clears the dirty set before it returns. *)
ReturnCachedDrained(w) ==
    [w EXCEPT !.scan.pc = "done", !.scan.result = w.sc.lastResult,
              !.scan.fromCache = TRUE, !.sw.dirtyPaths = {}]

(* lines 121-130: the whole-result cache answers *)
ReturnCached(w) ==
    [w EXCEPT !.scan.pc = "done", !.scan.result = w.sc.lastResult,
              !.scan.fromCache = TRUE]

(* The continuation of fs.access, lines 111-147: a missing root returns    *)
(* []; otherwise the watcher is started, the whole-result cache is tried,  *)
(* the dirty set and the reconciliation flag are drained and               *)
(* getProjectDirs is issued.                                               *)
ScanAccessResolved(ok) ==
    /\ scan.pc = "access"
    /\ IF ~ok
       THEN /\ SetWorld(RootMissing(World))
            /\ UNCHANGED <<forceFullReconciliation, sessEnum, pending>>
       ELSE /\ (sessionWatcher.started \/ sessEnum < MaxEnum)
            /\ sessEnum' = IF sessionWatcher.started THEN sessEnum ELSE sessEnum + 1
            /\ LET w == [World EXCEPT !.sw = startSessionWatcher(@),
                                      !.scan.now = clock,
                                      !.scan.ops = @ \cup {"access"}]
                   consumed == consumeForceFullReconciliation(forceFullReconciliation)
               IN IF CacheHit(scan.sessionId, scan.since, scan.limit, clock, sessionCache)
                  THEN /\ SetWorld(ReturnCached(w))
                       /\ UNCHANGED <<forceFullReconciliation, pending>>
                  ELSE /\ SetWorld([w EXCEPT
                              !.scan.dirtyPaths = DrainedCopy(w.sw.dirtyPaths),
                              !.sw.dirtyPaths = {},
                              !.scan.needsFullStat = consumed.value,
                              !.scan.pc = "dirs",
                              !.owed = @ \cup pending])
                       /\ forceFullReconciliation' = consumed.flag
                       /\ pending' = {}
    /\ UNCHANGED <<files, actVars, clock>>

(* The continuation of getProjectDirs, line 147 *)
ScanDirsResolved(ok) ==
    /\ scan.pc = "dirs"
    /\ SetWorld(EnterDir([World EXCEPT !.scan.ops = @ \cup {"readdir"}],
                         IF ok THEN getProjectDirs ELSE <<>>))
    /\ UNCHANGED <<files, actVars, forceFullReconciliation, clock, sessEnum, pending>>

(* The continuation of fs.readdir, lines 153-164 *)
ScanReaddirResolved(ok) ==
    /\ scan.pc = "readdir"
    /\ LET d == Head(scan.projectDirs)
           listed == IF ok THEN DirEntries(d) ELSE <<>>
           entries == SelectSeq(listed, LAMBDA p : MatchesFilter(scan.sessionId, p))
       IN SetWorld(ScanEntries([World EXCEPT !.scan.ops = @ \cup {"readdir"}], entries))
    /\ UNCHANGED <<files, actVars, forceFullReconciliation, clock, sessEnum, pending>>

(* The continuation of fs.stat, lines 188-209 *)
ScanStatResolved(ok) ==
    /\ scan.pc = "stat"
    /\ LET p == Head(scan.entries)
           sessionId == SessionIdOf(p)
           mtimeMs == files[p].mtime
           metadata == sessionMetadataIndex[p]
           w == [World EXCEPT !.scan.ops = @ \cup {"stat"}]
           after ==
              IF ~ok \/ ~files[p].present
              THEN [w EXCEPT !.idx[p] = NoMetadata,
                             !.scan.failedStats = @ \cup {p}]
              ELSE IF metadata # NoMetadata /\ metadata.mtimeMs = mtimeMs
                   THEN PushSessionFile(w, metadata.sessionId, p, metadata.mtimeMs)
                   ELSE PushSessionFile(
                           [w EXCEPT !.idx[p] = [mtimeMs |-> mtimeMs,
                                                 sessionId |-> sessionId]],
                           sessionId, p, mtimeMs)
       IN SetWorld(ScanEntries(after, Tail(scan.entries)))
    /\ UNCHANGED <<files, actVars, forceFullReconciliation, clock, sessEnum, pending>>

(* The continuation of readJsonlFile, lines 235-245.  parseSessionFileRows *)
(* is called outside any try: what it raises rejects the scan's promise,   *)
(* with everything the scan has written so far left as it is.              *)
ScanReadResolved(ok) ==
    /\ scan.pc = "read"
    /\ LET file == Head(scan.todo)
           rows == readJsonlFile(file.filePath, ok)
           usageRows == parseSessionFileRows(file.sessionId, file.mtimeMs, rows)
           w == [World EXCEPT
                    !.agg = AggSet(@, file.sessionId, file.mtimeMs, usageRows, scan.now),
                    !.scan.sessions = @ \o usageRows,
                    !.scan.todo = Tail(@),
                    !.scan.ops = @ \cup {"read"},
                    !.scan.readPaths = @ \cup {file.filePath},
                    !.scan.failedReads = IF ok /\ files[file.filePath].present
                                         THEN @ ELSE @ \cup {file.filePath}]
       IN IF ParseThrows(rows)
          THEN SetWorld([World EXCEPT !.scan.pc = "rejected",
                                      !.scan.ops = @ \cup {"read"},
                                      !.scan.readPaths = @ \cup {file.filePath}])
          ELSE SetWorld(RowsLoop(w))
    /\ UNCHANGED <<files, actVars, forceFullReconciliation, clock, sessEnum, pending>>

----------------------------------------------------------------------------
(* Scans of a host that calls one scan at a time, with the watcher's       *)
(* events, the reconciliation timer and the agent's writes in between.     *)

InitFilesOf(present) ==
    files = [p \in Paths |->
               IF p \in present
               THEN [present |-> TRUE, content |-> ContentOf(p, 1), mtime |-> 1]
               ELSE AbsentFile]

InitScan == InitFilesOf(ScanPaths) /\ InitEngine

ScanStep ==
    \/ \E sessionId \in ScanSessionIds : ScanCall(sessionId, None, DefaultLimit)
    \/ ScanAccessResolved(TRUE)
    \/ ScanDirsResolved(TRUE)
    \/ ScanReaddirResolved(TRUE)
    \/ ScanStatResolved(TRUE)
    \/ ScanReadResolved(TRUE)
    \/ SessionDirsResolved

NextScan ==
    \/ ScanStep
    \/ \E p \in ScanPaths : WriteFile(p)
    \/ \E p \in ScanPaths : SessionListener(p)
    \/ ReconciliationTimer
    \/ Tick

SpecScan == InitScan /\ [][NextScan]_vars

(* Scans over three unit files, more than the aggregate cache holds, with  *)
(* writes and time in between and no watcher event.                        *)
InitCapacity == InitFilesOf(UnitPaths) /\ InitEngine

NextCapacity ==
    \/ ScanStep
    \/ \E p \in UnitPaths : WriteFile(p)
    \/ Tick

SpecCapacity == InitCapacity /\ [][NextCapacity]_vars

----------------------------------------------------------------------------
(* stopActivityWatch, lines 263-279; it ends with stopSessionWatcher().    *)

(* stopActivityWatch that leaves the offset table as it is. *)
StoppedKeepsOffsets(aw) ==
    [aw EXCEPT !.projectWatchers = {}, !.rootWatcher = FALSE,
               !.callback = "", !.started = FALSE]

(* The body of stopActivityWatch before its call of stopSessionWatcher,    *)
(* lines 263-276.                                                          *)
StoppedActivityWatcher(aw) ==
    [aw EXCEPT !.projectWatchers = {}, !.rootWatcher = FALSE,
               !.fileOffsets = [p \in Paths |-> None],
               !.callback = "", !.started = FALSE]

(* stopActivityWatch, lines 263-279; the listeners it closes deliver no    *)
(* further event.                                                          *)
stopActivityWatch ==
    /\ activityWatcher' = StoppedActivityWatcher(activityWatcher)
    /\ actEvents' = [p \in Paths |-> 0]
    /\ sessionWatcher' = StoppedSessionWatcher(sessionWatcher)
    /\ pending' = {}
    /\ owed' = {}
    /\ repeats' = IF activityWatcher.started THEN repeats
                  ELSE repeats \cup {"stopActivity"}
    /\ UNCHANGED <<files, deltas, primes, actEnum, delivered, primedAt, startLen>>
    /\ UNCHANGED <<forceFullReconciliation, sessionMetadataIndex,
                   sessionAggregateCache, sessionCache, clock, scan, sessEnum,
                   included, evictedFrom, probe>>

----------------------------------------------------------------------------

(* The engine's own steps: calls of the host, listener callbacks and the   *)
(* continuations of its awaits.                                            *)
EngineStep ==
    \/ \E cb \in Callbacks : startActivityWatch(cb)
    \/ ActivityDirsResolved
    \/ \E t \in PrimeIds : PrimeReaddirResolved(t)
    \/ \E t \in PrimeIds : PrimeStatRun(t)
    \/ \E t \in PrimeIds : PrimeStatResolved(t)
    \/ \E p \in Paths : ActivityListener(p)
    \/ \E i \in DeltaIds : DeltaStatRun(i)
    \/ \E i \in DeltaIds : DeltaStatResolved(i)
    \/ \E i \in DeltaIds : DeltaReadResolved(i)

(* Unit files that only grow, watched from one startActivityWatch on. *)
NextAppend ==
    \/ \E p \in ActPaths, line \in Lines : AppendLine(p, line)
    \/ EngineStep

SpecAppend == Init /\ [][NextAppend]_vars

(* Unit files that grow, are truncated (rotation) and are removed. *)
NextDelta ==
    \/ \E p \in ActPaths, line \in Lines : AppendLine(p, line)
    \/ \E p \in ActPaths, n \in 0..MaxLen : TruncateFile(p, n)
    \/ \E p \in ActPaths : DeleteFile(p)
    \/ EngineStep

SpecDelta == Init /\ [][NextDelta]_vars

----------------------------------------------------------------------------
(* Claims about the activity delta engine *)

Offsets == activityWatcher.fileOffsets

Quiescent ==
    /\ actEnum = 0
    /\ \A t \in PrimeIds : primes[t].pc = "idle"
    /\ \A i \in DeltaIds : deltas[i].pc = "idle"
    /\ \A p \in Paths : actEvents[p] = 0

AppendedAfterPriming(p, k) ==
    /\ primedAt[p] # None
    /\ k > primedAt[p]
    /\ k <= Len(files[p].content)
    /\ isTokenBearingAssistant(files[p].content[k])

(* C1: in append-only runs, every token-bearing line appended after the    *)
(* file's offset was primed is passed to the callback exactly once: never  *)
(* twice, and once all events and delta reads are through, not zero times. *)
C1_ExactlyOnce ==
    \A p \in Paths : \A k \in 1..MaxLen :
        AppendedAfterPriming(p, k) =>
            /\ delivered[p][k] <= 1
            /\ (Quiescent => delivered[p][k] = 1)

(* C2: in append-only runs, no callback invocation carries a line that was *)
(* already in the file when startActivityWatch was called.                 *)
C2_NoReplay ==
    \A p \in Paths : \A k \in 1..MaxLen :
        (startLen[p] # None /\ k <= startLen[p]) => delivered[p][k] = 0

(* C3: a step lowers a path's stored offset only if it is the write of a   *)
(* delta read whose stat saw a size below the offset stored until then.    *)
DeltaWriteBelow(p) ==
    \E i \in DeltaIds :
        /\ deltas[i].pc = "read"
        /\ deltas'[i].pc = "idle"
        /\ deltas[i].path = p
        /\ deltas[i].size < Offsets[p]

C3_OffsetMonotone ==
    [][\A p \in Paths :
         (Offsets[p] # None /\ Offsets'[p] # None /\ Offsets'[p] < Offsets[p])
            => DeltaWriteBelow(p)]_vars

(* C4: a delta read whose stat saw a size below the recorded offset reads  *)
(* the range [0, size), of positive length, and the token-bearing lines    *)
(* the file holds in that range are what the callback receives.            *)
SawShrunk(i) == deltas[i].pc = "read" /\ deltas[i].size < deltas[i].known

C4_RangeFromZero ==
    \A i \in DeltaIds :
        SawShrunk(i) => deltas[i].start = 0 /\ deltas[i].size - deltas[i].start > 0

C4_EmitsRange ==
    \A i \in DeltaIds :
        (SawShrunk(i) /\ deltas'[i].pc = "idle" /\ files[deltas[i].path].present) =>
            LET p == deltas[i].path
                upto == Min(deltas[i].size, Len(files[p].content))
            IN /\ Offsets'[p] = deltas[i].size
               /\ \A k \in 1..MaxLen :
                     delivered'[p][k] =
                        IF k <= upto /\ isTokenBearingAssistant(files[p].content[k])
                        THEN Min(delivered[p][k] + 1, 2)
                        ELSE delivered[p][k]

C4_TruncationRecovery == [](C4_RangeFromZero) /\ [][C4_EmitsRange]_vars

C4_Witness ==
    \E i \in DeltaIds :
        /\ SawShrunk(i)
        /\ deltas[i].start = 0
        /\ \E k \in 1..deltas[i].size :
              /\ k <= Len(files[deltas[i].path].content)
              /\ isTokenBearingAssistant(files[deltas[i].path].content[k])

----------------------------------------------------------------------------
(* Claims about the scan orchestrator *)

Returned == scan.pc = "done"

(* C5: while the session watcher stays started, a change event that comes  *)
(* after a drain stays in the dirty set until the next drain, does not     *)
(* change the dirty set a scan in flight has drained, and a path whose     *)
(* event was drained is not taken from the metadata index without a stat   *)
(* by any scan that lists it, until one scan has stat'd it.                *)
C5_StaysRecorded == sessionWatcher.started => pending \subseteq sessionWatcher.dirtyPaths

C5_Restats == scan.skipped \cap owed = {}

C5_KeepsDrained == (PastDrain /\ scan'.pc # "access") => scan'.dirtyPaths = scan.dirtyPaths

C5_DrainAtomicity ==
    [](C5_StaysRecorded /\ C5_Restats) /\ [][C5_KeepsDrained]_vars

C5_Witness ==
    /\ Returned
    /\ \E p \in scan.prevLate :
          /\ p \in scan.dirtyPaths
          /\ p \in scan.statted
          /\ p \notin scan.forced
          /\ scan.prevIncluded[p] # None
          /\ sessionMetadataIndex[p] # NoMetadata

(* C6: a scan that finds the reconciliation flag set at its drain stats    *)
(* every candidate file and takes none from the metadata index; the drain  *)
(* hands the flag's value to the scan and leaves the flag false, so that   *)
(* another consume returns false.                                          *)
C6_StatsEveryCandidate ==
    scan.needsFullStat => scan.skipped = {} /\ scan.seenFilePaths \subseteq scan.statted

C6_ConsumesFlag ==
    (scan.pc = "access" /\ scan'.pc = "dirs") =>
        /\ scan'.needsFullStat = forceFullReconciliation
        /\ ~forceFullReconciliation'
        /\ ~consumeForceFullReconciliation(forceFullReconciliation').value

C6_ReconciliationOverride ==
    [](C6_StatsEveryCandidate) /\ [][C6_ConsumesFlag]_vars

C6_Witness ==
    /\ Returned
    /\ scan.needsFullStat
    /\ ~forceFullReconciliation
    /\ \E p \in scan.forced : p \in scan.statted /\ files[p].mtime = scan.prevIncluded[p]

(* C7: in a scan that is not forced, a candidate file that an earlier scan *)
(* included, that is not in the drained dirty set and whose modification   *)
(* time is unchanged gets neither a stat nor a read.                       *)
UnchangedSinceIncluded(p) ==
    /\ scan.prevIncluded[p] # None
    /\ p \notin scan.dirtyPaths
    /\ files[p].present
    /\ files[p].mtime = scan.prevIncluded[p]

C7_SkipsUnchanged ==
    (~scan.needsFullStat /\ ~scan.fromCache) =>
        \A p \in scan.seenFilePaths :
            UnchangedSinceIncluded(p) => p \notin scan.statted /\ p \notin scan.readPaths

(* C8: a global scan called with the stored limit and since, less than the *)
(* TTL after the stored check time, performs no filesystem operation and   *)
(* returns the stored rows.                                                *)
C8_HitWithoutFilesystem ==
    scan.eligible =>
        /\ scan.ops = {}
        /\ Returned => scan.fromCache /\ scan.result = sessionCache.lastResult

(* C9: a scan with a single-unit filter never returns from the             *)
(* whole-result cache branch, and no step taken while it is in flight      *)
(* changes any field of the whole-result cache.                            *)
C9_NeverFromCache == scan.sessionId # "" => ~scan.fromCache

C9_LeavesCache ==
    (scan.sessionId # "" /\ scan.pc \notin {"idle", "done"}) => sessionCache' = sessionCache

C9_SingleUnitBypassesCache ==
    [](C9_NeverFromCache) /\ [][C9_LeavesCache]_vars

C9_Witness ==
    /\ Returned
    /\ scan.sessionId # ""
    /\ CacheHit("", scan.since, scan.limit, scan.now, sessionCache)
    /\ scan.result # sessionCache.lastResult

(* C10: whenever another operation can run, the aggregate cache holds at   *)
(* most SESSION_AGGREGATE_CACHE_MAX entries.                               *)
C10_WithinCapacity == Len(sessionAggregateCache) <= SESSION_AGGREGATE_CACHE_MAX

----------------------------------------------------------------------------
(* The eviction pass on its own, driven as cache.test.ts drives it: entries *)
(* are set with chosen access times, then one pass runs.                    *)

MaxAccess == 3
EvictKeys == {"s0", "s1", "s2"}

exceptAggregate == <<files, actVars, sessionWatcher, forceFullReconciliation,
                     sessionMetadataIndex, sessionCache, clock, scan, sessEnum,
                     pending, owed, included, repeats, probe>>

CacheSetEntry(key, lastAccessed) ==
    /\ sessionAggregateCache' = AggSet(sessionAggregateCache, key, 0, <<>>, lastAccessed)
    /\ evictedFrom' = NotRun
    /\ UNCHANGED exceptAggregate

EvictPass ==
    /\ evictedFrom' = sessionAggregateCache
    /\ sessionAggregateCache' = evictSessionAggregateCache(sessionAggregateCache)
    /\ UNCHANGED exceptAggregate

NextEvict ==
    \/ \E key \in EvictKeys, lastAccessed \in 1..MaxAccess : CacheSetEntry(key, lastAccessed)
    \/ EvictPass

SpecEvict == Init /\ [][NextEvict]_vars

AggKeys(cache) == {cache[k].key : k \in 1..Len(cache)}

(* The positions of old whose entries new no longer holds. *)
RemovedBy(old, new) == {k \in 1..Len(old) : old[k].key \notin AggKeys(new)}

(* C11: an eviction pass on a cache of at most capacity entries removes    *)
(* nothing; on a cache of capacity + k entries (k > 0) it removes exactly  *)
(* k entries, keeps the others as they were, and every removed entry was   *)
(* last accessed no later than every retained entry, whatever the          *)
(* insertion order.                                                        *)
C11_EvictionBoundary ==
    evictedFrom # NotRun =>
        LET old == evictedFrom
            new == sessionAggregateCache
            removed == RemovedBy(old, new)
        IN /\ Len(old) <= SESSION_AGGREGATE_CACHE_MAX => new = old
           /\ Len(old) > SESSION_AGGREGATE_CACHE_MAX =>
                 /\ Cardinality(removed) = Len(old) - SESSION_AGGREGATE_CACHE_MAX
                 /\ Len(new) = SESSION_AGGREGATE_CACHE_MAX
                 /\ \A k \in 1..Len(new) : \E j \in 1..Len(old) : old[j] = new[k]
                 /\ \A r \in removed : \A k \in 1..Len(new) :
                        old[r].lastAccessed <= new[k].lastAccessed

(* A pass ran on a cache two over capacity whose first-inserted entry was  *)
(* the most recently accessed one.                                         *)
C11_Witness ==
    /\ evictedFrom # NotRun
    /\ Len(evictedFrom) = SESSION_AGGREGATE_CACHE_MAX + 2
    /\ \A k \in 2..Len(evictedFrom) :
          evictedFrom[k].lastAccessed < evictedFrom[1].lastAccessed
    /\ Len(sessionAggregateCache) = SESSION_AGGREGATE_CACHE_MAX

----------------------------------------------------------------------------
(* The lifecycle of the dirty-path watcher: the host starts and stops it   *)
(* at any moment, also while a scan or the enumeration of a start is       *)
(* pending, and the listeners and the timer fire whenever they are live.   *)

NextLifecycle ==
    \/ ScanStep
    \/ startSessionWatcherCall
    \/ stopSessionWatcher
    \/ \E p \in ScanPaths : SessionListener(p)
    \/ \E d \in Dirs : RootListener(d)
    \/ ReconciliationTimer

SpecLifecycle == InitScan /\ [][NextLifecycle]_vars

(* C12: startSessionWatcher called while the watcher is started changes    *)
(* nothing: no second timer, no second root listener, no further           *)
(* enumeration, the dirty set as it was.  stopSessionWatcher called while  *)
(* it is stopped leaves started false, no project listener, no root        *)
(* listener, no timer and an empty dirty set.                              *)
C12_StartWhileStarted ==
    (startSessionWatcherCall /\ sessionWatcher.started) =>
        UNCHANGED <<files, actVars, sessionWatcher, forceFullReconciliation,
                    sessionMetadataIndex, sessionAggregateCache, sessionCache,
                    clock, scan, sessEnum, included>>

C12_StopWhileStopped ==
    (stopSessionWatcher /\ ~sessionWatcher.started) =>
        /\ ~sessionWatcher'.started
        /\ sessionWatcher'.projectWatchers = {}
        /\ ~sessionWatcher'.rootWatcher /\ sessionWatcher'.rootListeners = 0
        /\ ~sessionWatcher'.reconciliationTimer /\ sessionWatcher'.timers = 0
        /\ sessionWatcher'.dirtyPaths = {}

C12_Idempotent == [][C12_StartWhileStarted /\ C12_StopWhileStopped]_vars

(* Both repeated calls were made, the start with paths in the dirty set. *)
C12_Witness ==
    /\ repeats = {"start", "stop"}
    /\ sessionWatcher.started
    /\ sessionWatcher.dirtyPaths # {}

(* C13: while the watcher is stopped no project or root listener is open, *)
(* no path is in the dirty set and no timer is armed, also when the stop   *)
(* came while the enumeration of a start was pending or a scan was         *)
(* suspended in its directory loop.                                        *)
C13_QuietWhileStopped ==
    ~sessionWatcher.started =>
        /\ sessionWatcher.projectWatchers = {}
        /\ sessionWatcher.rootListeners = 0
        /\ sessionWatcher.timers = 0
        /\ sessionWatcher.dirtyPaths = {}

----------------------------------------------------------------------------

(* Scans over unit files of every kind of content, with every filesystem   *)
(* call of the scan free to fail.  The first unit file holds sound records *)
(* or a null line, the second any kind of content.                         *)

FaultContents(p) ==
    IF p = PathSeq[1] THEN {ContentOf(p, 1), <<NullLine>>}
    ELSE {ContentOf(p, 1), <<BadLine, NumberLine, PlainLine>>, <<NullLine>>,
          <<CwdNumberLine>>, <<CwdLine, NullLine>>}

InitFaults ==
    /\ files \in [Paths -> UNION {{AbsentFile},
                      UNION {{[present |-> TRUE, content |-> c, mtime |-> 1] :
                                 c \in FaultContents(p)} : p \in ScanPaths}}]
    /\ \A p \in Paths :
          IF p \in ScanPaths
          THEN files[p].present /\ files[p].content \in FaultContents(p)
          ELSE files[p] = AbsentFile
    /\ InitEngine

NextFaults ==
    \/ \E sessionId \in ScanSessionIds : ScanCall(sessionId, None, DefaultLimit)
    \/ \E ok \in BOOLEAN : ScanAccessResolved(ok)
    \/ \E ok \in BOOLEAN : ScanDirsResolved(ok)
    \/ \E ok \in BOOLEAN : ScanReaddirResolved(ok)
    \/ \E ok \in BOOLEAN : ScanStatResolved(ok)
    \/ \E ok \in BOOLEAN : ScanReadResolved(ok)
    \/ SessionDirsResolved
    \/ SessionListener(PathSeq[1])
    \/ ReconciliationTimer

SpecFaults == InitFaults /\ [][NextFaults]_vars

(* C16: whatever the unit files hold and whichever filesystem call fails,  *)
(* a scan resolves with a row list and never rejects.                      *)
C16_NeverRejects == scan.pc # "rejected"

----------------------------------------------------------------------------
(* The lifecycle of the activity watcher: the host starts and stops it at  *)
(* any moment, with the dirty-path watcher started by a scan or the host   *)
(* in between.                                                             *)
NextActivity ==
    \/ \E p \in ActPaths : AppendLine(p, TokLine)
    \/ EngineStep
    \/ stopActivityWatch
    \/ startSessionWatcherCall
    \/ SessionDirsResolved

SpecActivity == Init /\ [][NextActivity]_vars

(* C14: between a stopActivityWatch and the next startActivityWatch the    *)
(* callback is not invoked, also by a delta read that was in flight at the *)
(* stop or by a listener attached by an enumeration that resolved after    *)
(* it.                                                                     *)
C14_NoCallbackStep ==
    \A i \in DeltaIds :
        (DeltaReadResolved(i) /\ ~activityWatcher.started) => CallbackCalls(i) = <<>>

C14_NoCallbackAfterStop == [][C14_NoCallbackStep]_vars

(* C15: stopActivityWatch leaves no project listener, no root listener, an *)
(* empty offset table, no callback and started false, and the dirty-path   *)
(* watcher stopped as a stopSessionWatcher leaves it; called in that state *)
(* it changes nothing.                                                     *)
ActivityStopped ==
    /\ activityWatcher.projectWatchers = {}
    /\ ~activityWatcher.rootWatcher
    /\ \A p \in Paths : activityWatcher.fileOffsets[p] = None
    /\ activityWatcher.callback = ""
    /\ ~activityWatcher.started
    /\ sessionWatcher = InitSessionWatcher

C15_StopStep ==
    stopActivityWatch =>
        /\ ActivityStopped'
        /\ ActivityStopped =>
              UNCHANGED <<files, activityWatcher, deltas, primes, actEnum, delivered,
                          primedAt, startLen, sessionWatcher, forceFullReconciliation,
                          sessionMetadataIndex, sessionAggregateCache, sessionCache,
                          clock, scan, sessEnum, included>>

C15_StopClearsAll == [][C15_StopStep]_vars

(* A stop has taken a started watcher with a primed offset down while a    *)
(* delta and the enumeration of the dirty-path watcher were pending, and   *)
(* a second stop followed.                                                 *)
C15_Witness ==
    /\ ActivityStopped
    /\ "stopActivity" \in repeats
    /\ \E i \in DeltaIds : deltas[i].pc # "idle"
    /\ \E p \in Paths : primedAt[p] # None
    /\ sessEnum > 0

----------------------------------------------------------------------------

(* C17: a scan that finds the root directory inaccessible returns the      *)
(* empty list, starts no watcher and leaves the metadata index, the        *)
(* aggregate cache, the whole-result cache, the dirty set and the          *)
(* reconciliation flag as they were.                                       *)
C17_MissingRootStep ==
    ScanAccessResolved(FALSE) =>
        /\ scan'.pc = "done" /\ scan'.result = <<>>
        /\ UNCHANGED <<sessionWatcher, sessEnum, sessionMetadataIndex,
                       sessionAggregateCache, sessionCache,
                       forceFullReconciliation>>

C17_MissingRoot == [][C17_MissingRootStep]_vars

(* A scan found the root missing after an earlier scan had filled the      *)
(* caches and started the watcher, with a path in the dirty set and the    *)
(* reconciliation flag set.                                                *)
C17_Witness ==
    /\ Returned /\ scan.ops = {"access"} /\ ~scan.fromCache
    /\ sessionCache.lastResult # <<>>
    /\ sessionAggregateCache # <<>>
    /\ sessionWatcher.dirtyPaths # {}
    /\ forceFullReconciliation

(* The rows the unit file p yields as it is now. *)
RowsOfFile(p) ==
    parseSessionFileRows(SessionIdOf(p), files[p].mtime, readJsonlFile(p, TRUE))

Listed(p) == \E k \in 1..Len(scan.sessionFiles) : scan.sessionFiles[k].filePath = p

(* C18: a unit file whose read failed in an earlier scan and that is       *)
(* readable again, content and modification time as before, has its rows   *)
(* in the result of every later scan that runs a reconciliation sweep and  *)
(* lists it, none of whose own reads fails.                                *)
C18_SweepRecovers ==
    (Returned /\ ~scan.fromCache /\ scan.needsFullStat /\ scan.failedReads = {}) =>
        \A p \in scan.prevFailed :
            Listed(p) => Range(RowsOfFile(p)) \subseteq Range(scan.result)

----------------------------------------------------------------------------
(* Eventual consistency.  One unit file is written a bounded number of     *)
(* times; the host issues global scans for ever, each await of a scan      *)
(* resolves, time passes, and the reconciliation interval fires if the     *)
(* timer stays armed.  Watcher events are raised or dropped at will, and   *)
(* the host stops the dirty-path watcher at will; the next scan starts it  *)
(* again.                                                                  *)

Older(t) == IF t > 0 THEN t - 1 ELSE 0

(* Time passes beyond the window the clock is kept in: now stays at the    *)
(* top of the window and every stored time is one step older.              *)
TickOver ==
    /\ clock = ClockMax
    /\ sessionCache' = [sessionCache EXCEPT !.lastCheck = Older(@)]
    /\ sessionAggregateCache' =
          [k \in 1..Len(sessionAggregateCache) |->
              [sessionAggregateCache[k] EXCEPT !.lastAccessed = Older(@)]]
    /\ scan' = [scan EXCEPT !.now = Older(@)]
    /\ UNCHANGED <<files, actVars, sessionWatcher, forceFullReconciliation,
                   sessionMetadataIndex, clock, sessEnum, pending, owed,
                   included, passVars>>

GlobalCall == ScanCall("", None, DefaultLimit)

ScanProgress ==
    \/ ScanAccessResolved(TRUE)
    \/ ScanDirsResolved(TRUE)
    \/ ScanReaddirResolved(TRUE)
    \/ ScanStatResolved(TRUE)
    \/ ScanReadResolved(TRUE)

TimePasses == Tick \/ TickOver

InitEventual == InitFilesOf(ActPaths) /\ InitEngine

NextEventual ==
    \/ GlobalCall
    \/ ScanProgress
    \/ SessionDirsResolved
    \/ TimePasses
    \/ ReconciliationTimer
    \/ \E p \in ActPaths : WriteFile(p)
    \/ \E p \in ActPaths : SessionListener(p)
    \/ stopSessionWatcher

SpecEventual ==
    /\ InitEventual
    /\ [][NextEventual]_vars
    /\ WF_vars(GlobalCall)
    /\ SF_vars(ScanProgress)
    /\ WF_vars(SessionDirsResolved)
    /\ WF_vars(TimePasses)
    /\ WF_vars(ReconciliationTimer)

(* The rows of unit file p in the result of the scan. *)
ResultRowsOf(p) ==
    SelectSeq(scan.result, LAMBDA row : row.sessionId = SessionIdOf(p))

ReturnsCurrent ==
    /\ Returned
    /\ scan.sessionId = ""
    /\ \A p \in ActPaths : ResultRowsOf(p) = RowsOfFile(p)

(* C19: global scans return the rows of the unit file as it is, content    *)
(* and modification time, again and again; as the file is written finitely *)
(* often, some global scan after its last write returns the rows of its    *)
(* final content and modification time.                                    *)
C19_EventuallyConsistent == []<>ReturnsCurrent

----------------------------------------------------------------------------
(* Scans called with a row limit, over two unit files of one row each. *)

ScanLimits == {1, DefaultLimit}

NextLimit ==
    \/ \E sessionId \in ScanSessionIds, limit \in ScanLimits :
          ScanCall(sessionId, None, limit)
    \/ ScanProgress
    \/ SessionDirsResolved
    \/ \E p \in ScanPaths : WriteFile(p)
    \/ Tick

SpecLimit == InitScan /\ [][NextLimit]_vars

(* C20: the list a scan called with limit L returns has at most L rows. *)
C20_AtMostLimit == Returned => Len(scan.result) <= scan.limit

----------------------------------------------------------------------------
(* Scans over three unit files of two records each, whose modification     *)
(* times differ from the start, called with and without a since bound.     *)

TwoRecords(p) ==
    <<[TokLine EXCEPT !.id = "m1", !.input = 10 * PathIndex(p) + 1],
      [TokLine EXCEPT !.id = "m2", !.input = 10 * PathIndex(p) + 2]>>

SinceBounds == {None, MaxMtime}

InitOrder ==
    /\ files \in [Paths -> {AbsentFile} \cup
                         {[present |-> TRUE, content |-> TwoRecords(p), mtime |-> m] :
                               p \in UnitPaths, m \in 1..MaxMtime}]
    /\ \A p \in Paths : IF p \in UnitPaths
                         THEN files[p].present /\ files[p].content = TwoRecords(p)
                         ELSE files[p] = AbsentFile
    /\ InitEngine

NextOrder ==
    \/ \E sessionId \in ScanSessionIds, since \in SinceBounds :
          ScanCall(sessionId, since, DefaultLimit)
    \/ ScanProgress
    \/ SessionDirsResolved
    \/ \E p \in ScanPaths : WriteFile(p)
    \/ Tick

SpecOrder == InitOrder /\ [][NextOrder]_vars

(* The modification time the scan recorded for the unit of a row. *)
RecordedMtime(sessionId) ==
    scan.sessionFiles[CHOOSE k \in 1..Len(scan.sessionFiles) :
                         scan.sessionFiles[k].sessionId = sessionId].mtimeMs

(* C21: in the list a scan returns otherwise than from the whole-result    *)
(* cache, the rows of a unit are contiguous, every row belongs to a unit   *)
(* the scan included and carries the modification time recorded for it,    *)
(* and these times do not increase along the list.                         *)
C21_UnitOrdering ==
    (Returned /\ ~scan.fromCache) =>
        LET result == scan.result
        IN /\ \A i \in 1..Len(result) :
                /\ \E k \in 1..Len(scan.sessionFiles) :
                      scan.sessionFiles[k].sessionId = result[i].sessionId
                /\ result[i].sessionUpdatedAt = RecordedMtime(result[i].sessionId)
           /\ \A i, j \in 1..Len(result) :
                i < j => result[i].sessionUpdatedAt >= result[j].sessionUpdatedAt
           /\ \A i, j, k \in 1..Len(result) :
                (i < j /\ j < k /\ result[i].sessionId = result[k].sessionId)
                    => result[j].sessionId = result[i].sessionId

(* A scan returned the rows of three units, two rows of the last unit of   *)
(* the directory order first.                                              *)
C21_Witness ==
    /\ Returned /\ ~scan.fromCache
    /\ Len(scan.sessionFiles) = 3
    /\ Len(scan.result) >= 4
    /\ scan.result[1].sessionId = "c"
    /\ scan.result[2].sessionId = "c"
    /\ scan.result[3].sessionId = "a"

(* C22: every row a scan called with a since bound returns, by whichever   *)
(* path, carries a modification time of its unit at or after the bound.    *)
C22_SinceFilter ==
    (Returned /\ scan.since # None) =>
        \A i \in 1..Len(scan.result) : scan.result[i].sessionUpdatedAt >= scan.since

(* A scan with a bound skipped the stat of one unit, stat'd another, left  *)
(* out a unit older than the bound and returned rows.                      *)
C22_Witness ==
    /\ Returned /\ scan.since # None /\ ~scan.fromCache
    /\ scan.result # <<>>
    /\ scan.skipped # {} /\ scan.statted # {}
    /\ Len(scan.sessionFiles) < Cardinality(scan.seenFilePaths)

----------------------------------------------------------------------------
(* The two validators, each translated from its own source, applied to     *)
(* decoded JSON values.  A value is told by what the validators look at:   *)
(* its shape, its type, what message is, and of message the model, what    *)
(* usage is, the four counters of usage and the id.  A counter is absent,  *)
(* a string, or a negative, zero or positive number.                       *)

Counters == {"absent", "string", "neg", "zero", "pos"}
IsNumber(counter) == counter \in {"neg", "zero", "pos"}

DecodedValues ==
    [shape : {"null", "number", "object"},
     type : {"absent", "user", "assistant"},
     message : {"absent", "null", "string", "object"},
     model : {"absent", "number", "empty", "blank", "ok"},
     usage : {"absent", "null", "number", "object"},
     input_tokens : Counters,
     output_tokens : {"absent", "string", "pos"},
     cache_creation_input_tokens : {"absent", "zero", "pos"},
     cache_read_input_tokens : {"absent", "zero", "pos"},
     id : {"absent", "number", "empty", "ok"}]

(* A validator that lets a zero input counter pass. *)
parserAcceptsZeroInput(v) ==
    /\ v.shape = "object"
    /\ v.type = "assistant"
    /\ v.message = "object"
    /\ v.model = "ok"
    /\ v.usage = "object"
    /\ v.input_tokens \in {"zero", "pos"}
    /\ IsNumber(v.output_tokens)
    /\ IsNumber(v.cache_creation_input_tokens)
    /\ IsNumber(v.cache_read_input_tokens)
    /\ v.id = "ok"

(* parser.ts isTokenBearingAssistant, lines 31-51 *)
parserIsTokenBearing(v) ==
    IF v.shape \in {"null"} \/ v.shape # "object" THEN FALSE
    ELSE IF v.type # "assistant" THEN FALSE
    ELSE IF v.message \in {"absent", "null"} \/ v.message # "object" THEN FALSE
    ELSE IF v.model \in {"absent", "number"} \/ v.model \in {"empty", "blank"} THEN FALSE
    ELSE IF v.usage \in {"absent", "null"} \/ v.usage # "object" THEN FALSE
    ELSE IF ~IsNumber(v.input_tokens) \/ v.input_tokens \in {"neg", "zero"} THEN FALSE
    ELSE IF ~IsNumber(v.output_tokens) THEN FALSE
    ELSE IF ~IsNumber(v.cache_creation_input_tokens) THEN FALSE
    ELSE IF ~IsNumber(v.cache_read_input_tokens) THEN FALSE
    ELSE IF v.id \in {"absent", "number"} \/ v.id = "empty" THEN FALSE
    ELSE TRUE

(* watcher.ts isTokenBearingAssistant, lines 44-62 *)
watcherIsTokenBearing(v) ==
    IF v.shape \in {"null"} \/ v.shape # "object" THEN FALSE
    ELSE IF v.type # "assistant" THEN FALSE
    ELSE IF v.message \in {"absent", "null"} \/ v.message # "object" THEN FALSE
    ELSE IF v.model \in {"absent", "number"} \/ v.model \in {"empty", "blank"} THEN FALSE
    ELSE IF v.usage \in {"absent", "null"} \/ v.usage # "object" THEN FALSE
    ELSE IF ~IsNumber(v.input_tokens) \/ v.input_tokens \in {"neg", "zero"} THEN FALSE
    ELSE IF ~IsNumber(v.output_tokens) THEN FALSE
    ELSE IF ~IsNumber(v.cache_creation_input_tokens) THEN FALSE
    ELSE IF ~IsNumber(v.cache_read_input_tokens) THEN FALSE
    ELSE IF v.id \in {"absent", "number"} \/ v.id = "empty" THEN FALSE
    ELSE TRUE

exceptProbe == <<files, actVars, sessionWatcher, forceFullReconciliation,
                 sessionMetadataIndex, sessionAggregateCache, sessionCache, clock,
                 scan, sessEnum, pending, owed, included, evictedFrom, repeats>>

(* A value is decoded from a line. *)
Decode ==
    /\ probe = NoProbe
    /\ \E v \in DecodedValues :
           probe' = [op |-> "decoded", input |-> v, output |-> <<>>]
    /\ UNCHANGED exceptProbe

(* Both validators are applied to the decoded value. *)
Validate ==
    /\ probe.op = "decoded"
    /\ probe' = [op |-> "validated", input |-> probe.input,
                 output |-> [parser |-> parserIsTokenBearing(probe.input),
                             watcher |-> watcherIsTokenBearing(probe.input)]]
    /\ UNCHANGED exceptProbe

NextValidate ==
    \/ Decode
    \/ Validate

SpecValidate == Init /\ [][NextValidate]_vars

(* C23: on every decoded value the validator of the scan path and the      *)
(* validator of the delta path return the same boolean.                    *)
C23_ValidatorParity ==
    probe.op = "validated" => probe.output.parser = probe.output.watcher

(* Both validators were applied to an assistant record that is sound but   *)
(* for an input counter of zero.                                           *)
C23_Witness ==
    /\ probe.op = "validated"
    /\ probe.input = [shape |-> "object", type |-> "assistant", message |-> "object",
                      model |-> "ok", usage |-> "object", input_tokens |-> "zero",
                      output_tokens |-> "pos", cache_creation_input_tokens |-> "zero",
                      cache_read_input_tokens |-> "zero", id |-> "ok"]
    /\ ~probe.output.parser

----------------------------------------------------------------------------
(* The row builder and the delta engine applied to record batches on their *)
(* own, as the tests of parseSessionFileRows do.                           *)

MaxBatch == 3
ProbeMtime == 7

SeqsUpTo(S, n) == UNION {[1..k -> S] : k \in 0..n}

(* Records that differ in what a row takes from them. *)
DedupRecords ==
    {[TokLine EXCEPT !.id = id, !.input = input, !.model = model,
                     !.output = output, !.timestamp = timestamp] :
        id \in {"m1", "m2"}, input \in {0, 3}, model \in {"opus", "sonnet"},
        output \in {1, 2}, timestamp \in {"absent", "t1", "t2"}}

(* Records that differ in their cache counters. *)
CounterRecords ==
    {[TokLine EXCEPT !.id = id, !.cacheRead = cacheRead,
                     !.cacheCreation = cacheCreation] :
        id \in {"m1", "m2"}, cacheRead \in {0 - 1, 0, 5},
        cacheCreation \in {0 - 1, 0, 7}}

(* Records, token-bearing or not, that differ in cwd and slug. *)
PathRecords ==
    {[TokLine EXCEPT !.valid = valid, !.cwd = cwd, !.slug = slug] :
        valid \in BOOLEAN, cwd \in {"absent", "  ", " /a ", "/b", "number"},
        slug \in {"absent", "", "s1", "s2"}}

Batches ==
    SeqsUpTo(DedupRecords, MaxBatch) \cup SeqsUpTo(CounterRecords, MaxBatch - 1)
        \cup SeqsUpTo(PathRecords, MaxBatch)

(* watcher.ts toTimestamp, lines 64-68 *)
watcherToTimestamp(value, now) ==
    IF value \in {"absent", ""} THEN now
    ELSE IF DateParse(value) # None THEN DateParse(value) ELSE now

(* watcher.ts processJsonlDelta, lines 152-168: what the callback is given *)
(* for one token-bearing record.                                           *)
ActivityUpdate(sessionId, entry, now) ==
    [sessionId |-> sessionId, messageId |-> entry.id,
     input |-> entry.input, output |-> entry.output,
     timestamp |-> watcherToTimestamp(entry.timestamp, now)]
    @@ Optional("cacheRead", entry.cacheRead > 0, entry.cacheRead)
    @@ Optional("cacheWrite", entry.cacheCreation > 0, entry.cacheCreation)

(* A batch of decoded records is at hand. *)
ReadBatch ==
    /\ probe = NoProbe
    /\ \E batch \in Batches :
           probe' = [op |-> "batch", input |-> batch, output |-> <<>>]
    /\ UNCHANGED exceptProbe

(* parseSessionFileRows is called on the batch. *)
BuildRows ==
    /\ probe.op = "batch"
    /\ probe' = IF ParseThrows(probe.input)
                THEN [probe EXCEPT !.op = "threw"]
                ELSE [probe EXCEPT !.op = "rows",
                         !.output = parseSessionFileRows("a", ProbeMtime, probe.input)]
    /\ UNCHANGED exceptProbe

(* The loop of processJsonlDelta runs over the batch. *)
EmitDeltas ==
    /\ probe.op = "batch"
    /\ probe' = [probe EXCEPT !.op = "deltas",
                    !.output = [k \in 1..Len(TokenBearing(probe.input)) |->
                                  ActivityUpdate("a", TokenBearing(probe.input)[k], clock)]]
    /\ UNCHANGED exceptProbe

NextRows == ReadBatch \/ BuildRows \/ EmitDeltas

SpecRows == Init /\ [][NextRows]_vars

(* The place in a batch of the last token-bearing record of a message id. *)
LastValid(batch, id) ==
    CHOOSE k \in 1..Len(batch) :
        /\ isTokenBearingAssistant(batch[k]) /\ batch[k].id = id
        /\ \A j \in (k + 1)..Len(batch) :
              ~(isTokenBearingAssistant(batch[j]) /\ batch[j].id = id)

ValidIds(batch) ==
    {batch[k].id : k \in {j \in 1..Len(batch) : isTokenBearingAssistant(batch[j])}}

(* C24: the row builder returns exactly one row for each message id among  *)
(* the records that pass validation, and that row has the model, the token *)
(* counts and the timestamp of the last valid record of that id; a record  *)
(* repeated gives the row it gives when fed once.                          *)
C24_LastWriteWins ==
    probe.op = "rows" =>
        LET batch == probe.input
            rows == probe.output
        IN /\ \A i \in 1..Len(rows) : rows[i].id \in ValidIds(batch)
           /\ \A id \in ValidIds(batch) :
                 /\ Cardinality({i \in 1..Len(rows) : rows[i].id = id}) = 1
                 /\ \A i \in 1..Len(rows) : rows[i].id = id =>
                       LET last == batch[LastValid(batch, id)]
                       IN /\ rows[i].modelId = last.model
                          /\ rows[i].input = last.input
                          /\ rows[i].output = last.output
                          /\ rows[i].timestamp =
                                IF last.timestamp = "absent" THEN ProbeMtime
                                ELSE DateParse(last.timestamp)
           /\ (batch # <<>> /\ \A k \in 1..Len(batch) : batch[k] = batch[1])
                 => rows = parseSessionFileRows("a", ProbeMtime, <<batch[1]>>)

(* Rows were built of three records of one message id that differ in model,*)
(* output and timestamp, the second of them not valid.                     *)
C24_Witness ==
    /\ probe.op = "rows"
    /\ Len(probe.input) = 3
    /\ \A k \in 1..3 : probe.input[k].id = "m1"
    /\ probe.input[1].input > 0 /\ probe.input[2].input = 0 /\ probe.input[3].input > 0
    /\ probe.input[1].model # probe.input[3].model
    /\ probe.input[1].output # probe.input[3].output
    /\ probe.input[1].timestamp = "t1" /\ probe.input[3].timestamp = "t2"
    /\ Len(probe.output) = 1

(* x, a row or a delta, has the counters of the record r it was made of. *)
CountersKept(x, r) ==
    /\ x.input = r.input
    /\ x.output = r.output
    /\ ("cacheRead" \in DOMAIN x) = (r.cacheRead > 0)
    /\ r.cacheRead > 0 => x.cacheRead = r.cacheRead
    /\ ("cacheWrite" \in DOMAIN x) = (r.cacheCreation > 0)
    /\ r.cacheCreation > 0 => x.cacheWrite = r.cacheCreation

(* C26: a row of the row builder and a delta of the delta engine have the  *)
(* cache-read (cache-write) field exactly when the cache-read              *)
(* (cache-creation) counter of the record is above zero, and then with its *)
(* value; input and output are the record's own input and output counters. *)
C26_ZeroOmission ==
    /\ probe.op = "rows" =>
          \A i \in 1..Len(probe.output) :
              CountersKept(probe.output[i],
                           probe.input[LastValid(probe.input, probe.output[i].id)])
    /\ probe.op = "deltas" =>
          /\ Len(probe.output) = Len(TokenBearing(probe.input))
          /\ \A i \in 1..Len(probe.output) :
                CountersKept(probe.output[i], TokenBearing(probe.input)[i])

(* Deltas were made of a record with a cache-read counter above zero and a *)
(* cache-creation counter of zero, and of one with both below or at zero.  *)
C26_Witness ==
    /\ probe.op = "deltas"
    /\ Len(probe.input) = 2
    /\ probe.input[1].cacheRead = 5 /\ probe.input[1].cacheCreation = 0
    /\ probe.input[2].cacheRead = 0 /\ probe.input[2].cacheCreation < 0
    /\ Len(probe.output) = 2
    /\ DOMAIN probe.output[2] = {"sessionId", "messageId", "input", "output", "timestamp"}

(* The record has a cwd that is a string and is not empty once trimmed. *)
HasCwd(r) == r.cwd \notin {"absent", "number"} /\ Trim(r.cwd) # ""
(* The record has a slug that is a non-empty string. *)
HasSlug(r) == r.slug \notin {"absent", "number", ""}

(* C27: every row built of a batch has as project path the trimmed cwd of  *)
(* the first record, valid or not, whose cwd is not empty once trimmed,    *)
(* and as display name the slug of the last record, valid or not, whose    *)
(* slug is a non-empty string; without such a record the field is absent,  *)
(* and it is never the empty string.                                       *)
C27_PathAndName ==
    probe.op = "rows" =>
        LET batch == probe.input
            withCwd == {k \in 1..Len(batch) : HasCwd(batch[k])}
            withSlug == {k \in 1..Len(batch) : HasSlug(batch[k])}
            first == CHOOSE k \in withCwd : \A j \in withCwd : k <= j
            last == CHOOSE k \in withSlug : \A j \in withSlug : k >= j
        IN \A i \in 1..Len(probe.output) :
              LET row == probe.output[i]
              IN /\ ("projectPath" \in DOMAIN row) = (withCwd # {})
                 /\ withCwd # {} => /\ row.projectPath = Trim(batch[first].cwd)
                                    /\ row.projectPath # ""
                 /\ ("sessionName" \in DOMAIN row) = (withSlug # {})
                 /\ withSlug # {} => /\ row.sessionName = batch[last].slug
                                     /\ row.sessionName # ""

(* A row was built of three records: the first, not valid, has a blank cwd *)
(* and a slug, the second a padded cwd and another slug, the third, the    *)
(* only valid one, another cwd and an empty slug.                          *)
C27_Witness ==
    /\ probe.op = "rows"
    /\ Len(probe.input) = 3
    /\ ~probe.input[1].valid /\ probe.input[1].cwd = "  " /\ probe.input[1].slug = "s1"
    /\ ~probe.input[2].valid /\ probe.input[2].cwd = " /a " /\ probe.input[2].slug = "s2"
    /\ probe.input[3].valid /\ probe.input[3].cwd = "/b" /\ probe.input[3].slug = ""
    /\ Len(probe.output) = 1
    /\ probe.output[1].projectPath = "/a"
    /\ probe.output[1].sessionName = "s2"

----------------------------------------------------------------------------
(* A unit file that grows by records that pass validation and by records   *)
(* that fail it on the input counter, the model or the message id, watched *)
(* by the activity engine and scanned, as a whole store and on its own.    *)

ZeroInputLine == [TokLine EXCEPT !.id = "m2", !.input = 0]
NegativeInputLine == [TokLine EXCEPT !.id = "m2", !.input = 0 - 1]
BlankModelLine == [TokLine EXCEPT !.id = "m2", !.model = "  "]
EmptyIdLine == [TokLine EXCEPT !.id = ""]

PositiveLines ==
    {TokLine, ZeroInputLine, NegativeInputLine, PlainLine, BlankModelLine, EmptyIdLine}

(* The agent appends a record to the unit file p, which moves its mtime. *)
AppendRecord(p, line) ==
    /\ Len(files[p].content) < MaxLen
    /\ files[p].mtime < MaxMtime
    /\ files' = [files EXCEPT ![p].present = TRUE, ![p].content = Append(@, line),
                              ![p].mtime = @ + 1]
    /\ Notify(p)
    /\ UNCHANGED <<activityWatcher, deltas, primes, actEnum, delivered,
                   primedAt, startLen>>
    /\ UNCHANGED scanVars

NextPositive ==
    \/ \E p \in ActPaths, line \in PositiveLines : AppendRecord(p, line)
    \/ EngineStep
    \/ \E sessionId \in {"", "a"} : ScanCall(sessionId, None, DefaultLimit)
    \/ ScanProgress
    \/ SessionDirsResolved

InitPositive ==
    /\ \E c \in {<<>>, <<ZeroInputLine>>, <<TokLine>>} :
          files = [p \in Paths |->
                     IF p \in ActPaths
                     THEN [present |-> TRUE, content |-> c, mtime |-> 1]
                     ELSE AbsentFile]
    /\ InitEngine

SpecPositive == InitPositive /\ [][NextPositive]_vars

(* x, a row or an entry handed to the callback, comes of a record with an  *)
(* input counter above zero, a model and a message id.                     *)
PositiveRow(row) == row.input > 0 /\ row.modelId # "" /\ row.id # ""
AllPositive(rows) == \A i \in 1..Len(rows) : PositiveRow(rows[i])

C25_RowsPositive ==
    /\ Returned => AllPositive(scan.result)
    /\ AllPositive(sessionCache.lastResult)
    /\ \A k \in 1..Len(sessionAggregateCache) :
          AllPositive(sessionAggregateCache[k].usageRows)

(* The record a delta given to the callback was made of. *)
PositiveRecord(entry) ==
    /\ entry.shape = "object"
    /\ entry.input > 0 /\ Trim(entry.model) # "" /\ entry.id # ""
    /\ ActivityUpdate("a", entry, clock).input > 0
    /\ ActivityUpdate("a", entry, clock).messageId # ""

C25_DeltaStep ==
    \A i \in DeltaIds : DeltaReadResolved(i) =>
        /\ \A k \in 1..Len(CallbackCalls(i)) : PositiveRecord(CallbackCalls(i)[k])
        /\ \A p \in Paths, k \in 1..MaxLen :
              delivered'[p][k] # delivered[p][k] =>
                  k <= Len(files[p].content) /\ PositiveRecord(files[p].content[k])

(* C25: every row a scan returns, be it parsed afresh, taken from the      *)
(* aggregate cache or from the whole-result cache, and every delta given   *)
(* to the activity callback has an input count above zero, a non-empty     *)
(* model and a non-empty message id behind it; a record whose input        *)
(* counter is zero, negative or not a number gives no row and no callback. *)
C25_PositiveInput == []C25_RowsPositive /\ [][C25_DeltaStep]_vars

(* The unit file holds a record with a zero input counter and, appended    *)
(* while watched, a valid one: only the second went to the callback, and a *)
(* scan answered from the whole-result cache returned one row.             *)
C25_Witness ==
    /\ files[PathSeq[1]].content = <<ZeroInputLine, TokLine>>
    /\ delivered[PathSeq[1]][1] = 0
    /\ delivered[PathSeq[1]][2] > 0
    /\ Returned /\ scan.fromCache
    /\ Len(scan.result) = 1
    /\ Len(sessionAggregateCache) = 1

----------------------------------------------------------------------------
(* The row loop and the aggregate cache *)

(* The aggregate cache has an entry of the file's unit id, stored under    *)
(* the modification time the scan holds for the file.                      *)
HasValidEntry(cache, file) ==
    \E k \in 1..Len(cache) :
        cache[k].key = file.sessionId /\ cache[k].updatedAt = file.mtimeMs

EntryOf(cache, file) ==
    cache[CHOOSE k \in 1..Len(cache) : cache[k].key = file.sessionId]

HasEntry(cache, file) == \E k \in 1..Len(cache) : cache[k].key = file.sessionId

(* The files the row loop passes without a read in the step at hand: those *)
(* ahead of the file it stops at, from the file after the one just read,   *)
(* or from the head of the sorted list when the loop starts.               *)
LoopTodo == IF scan.pc = "read" THEN Tail(scan.todo) ELSE scan'.sessionFiles
PassedOver ==
    IF Len(scan'.todo) <= Len(LoopTodo)
    THEN SubSeq(LoopTodo, 1, Len(LoopTodo) - Len(scan'.todo))
    ELSE <<>>

(* A step in which the row loop runs: the one that starts it or the        *)
(* continuation of a read.                                                 *)
RowLoopStep ==
    \/ scan.pc \in {"dirs", "readdir", "stat"} /\ scan'.pc \in {"read", "done"}
    \/ scan.pc = "read" /\ (scan'.pc # "read" \/ scan'.todo # scan.todo)

(* A file passed over had a valid entry: no read, its stored rows go to    *)
(* the result, its last access becomes the scan's time.                    *)
ReusedStep ==
    \A i \in 1..Len(PassedOver) :
        LET file == PassedOver[i]
        IN /\ HasValidEntry(sessionAggregateCache, file)
           /\ file.filePath \notin scan'.readPaths
           /\ Range(EntryOf(sessionAggregateCache, file).usageRows)
                 \subseteq Range(scan'.sessions)
           /\ scan'.pc = "read" =>
                 EntryOf(sessionAggregateCache', file) =
                     [EntryOf(sessionAggregateCache, file)
                         EXCEPT !.lastAccessed = scan'.now]

(* The file the loop stops at has no valid entry. *)
MissStep ==
    scan'.pc = "read" => ~HasValidEntry(sessionAggregateCache', Head(scan'.todo))

(* The file just read has its entry replaced by the rows read, stored under *)
(* the file's modification time (the eviction pass of a scan that ends in   *)
(* this step may have dropped it again).                                    *)
ReplacedStep ==
    scan.pc = "read" =>
        LET file == Head(scan.todo)
            fresh == parseSessionFileRows(file.sessionId, file.mtimeMs,
                                          readJsonlFile(file.filePath, TRUE))
        IN /\ file.filePath \in scan'.readPaths
           /\ (scan'.pc # "done" \/ HasEntry(sessionAggregateCache', file)) =>
                 /\ HasEntry(sessionAggregateCache', file)
                 /\ EntryOf(sessionAggregateCache', file).updatedAt = file.mtimeMs
                 /\ EntryOf(sessionAggregateCache', file).lastAccessed = scan.now
                 /\ EntryOf(sessionAggregateCache', file).usageRows \in {fresh, <<>>}

(* C28: for each included unit the scan takes the stored rows, without a   *)
(* read, exactly when the aggregate cache has an entry of the unit id      *)
(* whose modification time equals the one the scan holds for the unit, and *)
(* then sets the entry's last access to the scan's time; otherwise it      *)
(* reads the file and replaces the entry by the new rows under the unit's  *)
(* modification time.                                                      *)
C28_ValidByEquality ==
    [][RowLoopStep => ReusedStep /\ MissStep /\ ReplacedStep]_vars

----------------------------------------------------------------------------
(* Unit files that are removed between scans and under them: scans of the  *)
(* whole store and of one unit, whose readdir and stat may fail, with the  *)
(* watcher's events raised or not.                                         *)

NextDeletion ==
    \/ \E sessionId \in ScanSessionIds : ScanCall(sessionId, None, DefaultLimit)
    \/ ScanAccessResolved(TRUE)
    \/ ScanDirsResolved(TRUE)
    \/ \E ok \in BOOLEAN : ScanReaddirResolved(ok)
    \/ \E ok \in BOOLEAN : ScanStatResolved(ok)
    \/ ScanReadResolved(TRUE)
    \/ SessionDirsResolved
    \/ \E p \in ScanPaths : DeleteFile(p)
    \/ \E p \in ScanPaths : SessionListener(p)

SpecDeletion == InitScan /\ [][NextDeletion]_vars

(* The scan has returned after running its enumeration. *)
Enumerated == Returned /\ ~scan.fromCache /\ "readdir" \in scan.ops

(* After a scan that enumerated, no path that was not in its enumeration   *)
(* or whose stat failed has an entry in the metadata index.                *)
C29_IndexPurged ==
    Enumerated =>
        \A p \in Paths :
            (p \notin scan.seenFilePaths \/ p \in scan.failedStats)
                => sessionMetadataIndex[p] = NoMetadata

(* An entry leaves the aggregate cache only in the eviction pass of a scan  *)
(* that ends, which leaves the cache full with the entries accessed last.   *)
C29_EntryKeptStep ==
    \A k \in 1..Len(sessionAggregateCache) :
        LET entry == sessionAggregateCache[k]
        IN (\A j \in 1..Len(sessionAggregateCache') :
                sessionAggregateCache'[j].key # entry.key)
           => /\ scan.pc # "done" /\ scan'.pc = "done"
              /\ Len(sessionAggregateCache') = SESSION_AGGREGATE_CACHE_MAX
              /\ \A j \in 1..Len(sessionAggregateCache') :
                    sessionAggregateCache'[j].lastAccessed >= entry.lastAccessed

(* C29: after a completed scan the metadata index has no entry for a path  *)
(* that was not in the scan's directory enumeration or whose stat failed   *)
(* in it, while the aggregate-cache entry of the unit that vanished is not *)
(* removed by the deletion: it leaves the cache only through the eviction  *)
(* pass or by being overwritten.                                           *)
C29_DeletionDetected == []C29_IndexPurged /\ [][C29_EntryKeptStep]_vars

(* A global scan has returned after the unit file of "b", indexed and held *)
(* in the aggregate cache by an earlier scan, was removed: the index has   *)
(* lost the path, the aggregate cache still has the unit's entry.          *)
C29_Witness ==
    /\ Enumerated /\ scan.sessionId = ""
    /\ ~files[PathSeq[2]].present
    /\ scan.prevIncluded[PathSeq[2]] # None
    /\ PathSeq[2] \notin scan.seenFilePaths
    /\ sessionMetadataIndex[PathSeq[2]] = NoMetadata
    /\ \E k \in 1..Len(sessionAggregateCache) : sessionAggregateCache[k].key = "b"

----------------------------------------------------------------------------
(* The continuation of the stat of a delta read *)

(* The invocation has returned: it has issued no read and holds nothing. *)
DeltaReturned(i) == deltas'[i] = IdleDelta

C30_StatStep ==
    \A i \in DeltaIds : DeltaStatResolved(i) =>
        LET p == deltas[i].path
            size == deltas[i].size
            recorded == IF Offsets[p] = None THEN 0 ELSE Offsets[p]
        IN /\ size = Failed =>
                /\ Offsets'[p] = None
                /\ \A q \in Paths \ {p} : Offsets'[q] = Offsets[q]
                /\ delivered' = delivered
                /\ DeltaReturned(i)
           /\ (size # Failed /\ size = recorded) =>
                /\ Offsets' = Offsets
                /\ delivered' = delivered
                /\ DeltaReturned(i)

(* C30: when the stat of a delta read fails, the path's entry is removed   *)
(* from the offset table, no callback is invoked and the invocation        *)
(* returns; when the stat succeeds with the size equal to the recorded     *)
(* offset, the offset table is unchanged and no callback is invoked.       *)
C30_StatFailure == [][C30_StatStep]_vars

(* The unit file was primed with an offset and then removed: the delta     *)
(* read its removal raised has returned, and the offset entry is gone.     *)
C30_Witness ==
    /\ primedAt[PathSeq[1]] # None
    /\ ~files[PathSeq[1]].present
    /\ Offsets[PathSeq[1]] = None
    /\ \A i \in DeltaIds : deltas[i] = IdleDelta
    /\ actEvents[PathSeq[1]] = 0
    /\ \A k \in 1..MaxLen : delivered[PathSeq[1]][k] = 0

----------------------------------------------------------------------------
(* The order of the rows of one unit *)

(* The place in a batch of the first token-bearing record of a message id. *)
FirstValid(batch, id) ==
    CHOOSE k \in 1..Len(batch) :
        /\ isTokenBearingAssistant(batch[k]) /\ batch[k].id = id
        /\ \A j \in 1..(k - 1) :
              ~(isTokenBearingAssistant(batch[j]) /\ batch[j].id = id)

(* C31: the rows the row builder returns stand in the order in which the   *)
(* first valid record of each message id stands in the input; a later      *)
(* record of the id replaces the values of the row and leaves it where it  *)
(* is.                                                                     *)
C31_FirstSeenOrder ==
    probe.op = "rows" =>
        LET batch == probe.input
            rows == probe.output
        IN \A i, j \in 1..Len(rows) :
              /\ rows[i].id \in ValidIds(batch)
              /\ i < j => FirstValid(batch, rows[i].id) < FirstValid(batch, rows[j].id)
              /\ rows[i].output = batch[LastValid(batch, rows[i].id)].output
              /\ rows[i].modelId = batch[LastValid(batch, rows[i].id)].model

(* Rows were built of a record of one id, a record of another id and a     *)
(* second record of the first id with another output: the row of the       *)
(* first id stands first and has the output of the third record.           *)
C31_Witness ==
    /\ probe.op = "rows"
    /\ Len(probe.input) = 3
    /\ probe.input[1].id = "m1" /\ probe.input[2].id = "m2" /\ probe.input[3].id = "m1"
    /\ \A k \in 1..3 : probe.input[k].input > 0
    /\ probe.input[1].output # probe.input[3].output
    /\ Len(probe.output) = 2
    /\ probe.output[1].id = "m1"
    /\ probe.output[1].output = probe.input[3].output
    /\ probe.output[2].id = "m2"

----------------------------------------------------------------------------
(* What a scan may take from the metadata index *)

(* C32: a path that has an entry in the metadata index loses it in a scan, *)
(* global or single-unit, only when its file has vanished: a file that is  *)
(* on disk in a listed project directory and whose stat succeeds keeps its *)
(* entry.                                                                  *)
C32_IndexPreservedStep ==
    \A p \in Paths :
        (sessionMetadataIndex[p] # NoMetadata /\ sessionMetadataIndex'[p] = NoMetadata)
            => ~files[p].present \/ p \in scan'.failedStats

C32_IndexPreserved == [][C32_IndexPreservedStep]_vars

----------------------------------------------------------------------------
(* Two unit files of one file name in two project directories, hence of    *)
(* one unit id, scanned as a whole store and singly, with writes and time  *)
(* in between.                                                             *)

InitTwins == InitFilesOf(TwinPaths) /\ InitEngine

NextTwins ==
    \/ \E sessionId \in {"", "a"} : ScanCall(sessionId, None, DefaultLimit)
    \/ ScanProgress
    \/ SessionDirsResolved
    \/ \E p \in TwinPaths : WriteFile(p)
    \/ \E p \in TwinPaths : SessionListener(p)
    \/ Tick

SpecTwins == InitTwins /\ [][NextTwins]_vars

(* The file is as the scan's stat, or its index entry, had it. *)
AsScanned(file) ==
    files[file.filePath].present /\ files[file.filePath].mtime = file.mtimeMs

(* C33: for every file a scan includes, the rows the scan returns for it   *)
(* are the rows the row builder makes of that file's content, also when    *)
(* two files in two project directories have one file name, hence one unit *)
(* id, and one modification time.                                          *)
C33_RowsOfTheirFile ==
    (Enumerated /\ \A k \in 1..Len(scan.sessionFiles) : AsScanned(scan.sessionFiles[k]))
        => \A k \in 1..Len(scan.sessionFiles) :
              Range(RowsOfFile(scan.sessionFiles[k].filePath)) \subseteq Range(scan.result)

----------------------------------------------------------------------------
(* The offset a delta read leaves behind *)

(* The offset the table holds for p after the step, 0 when it holds none. *)
RecordedAfter(p) == IF Offsets'[p] = None THEN 0 ELSE Offsets'[p]

(* A delta read ends in this step with its stat succeeded and no read      *)
(* failed: either its stat's continuation returns, or its read's does with *)
(* the file there.                                                         *)
C34_OffsetStep ==
    \A i \in DeltaIds :
        /\ (DeltaStatResolved(i) /\ deltas[i].size # Failed /\ deltas'[i] = IdleDelta)
              => RecordedAfter(deltas[i].path) = deltas[i].size
        /\ (DeltaReadResolved(i) /\ files[deltas[i].path].present)
              => RecordedAfter(deltas[i].path) = deltas[i].size

(* C34: after a delta read whose stat and read succeeded the offset        *)
(* recorded for the path is the file size the read observed, also when     *)
(* that size is below the offset recorded before and when it is zero, so   *)
(* that a file truncated to empty and grown again is read from byte zero.  *)
C34_OffsetTracksSize == [][C34_OffsetStep]_vars

----------------------------------------------------------------------------
(* What a scan answered from the whole-result cache leaves alone *)

(* The continuation of fs.access returns the whole-result cache. *)
HitStep == ScanAccessResolved(TRUE) /\ scan'.fromCache
(* The continuation of fs.access gets past the cache. *)
PastCacheStep == ScanAccessResolved(TRUE) /\ scan'.pc = "dirs"

C35_HitStep ==
    /\ HitStep =>
          /\ sessionWatcher'.dirtyPaths = sessionWatcher.dirtyPaths
          /\ forceFullReconciliation' = forceFullReconciliation
          /\ sessionMetadataIndex' = sessionMetadataIndex
          /\ sessionAggregateCache' = sessionAggregateCache
    /\ PastCacheStep =>
          /\ scan'.dirtyPaths = sessionWatcher.dirtyPaths
          /\ scan'.needsFullStat = forceFullReconciliation

(* C35: a global scan answered from the whole-result cache leaves the      *)
(* dirty-path set, the reconciliation flag, the metadata index and the     *)
(* aggregate cache as they were, and the next scan that gets past the      *)
(* cache takes the dirty marks and the pending reconciliation it finds.    *)
C35_HitConsumesNothing == [][C35_HitStep]_vars

(* A scan has returned from the whole-result cache while a path is marked  *)
(* dirty and a reconciliation is pending.                                  *)
C35_Witness ==
    /\ Returned /\ scan.fromCache
    /\ scan.ops = {"access"}
    /\ sessionWatcher.dirtyPaths # {}
    /\ forceFullReconciliation
    /\ Len(sessionAggregateCache) > 0

====
